---- MODULE Spec2Model ----
(***************************************************************************)
(* State-machine model of the combat core of the game: the Game State      *)
(* Store (GameState), the Shop's purchase path, the Weapon fire gate, the  *)
(* Hostile Entity (Enemy), Game.checkEnemyAttacks, the Lifecycle Manager   *)
(* (SpawnerSystem), the Hit-Scan Resolver (RaycastSystem) and the Event    *)
(* Channel (EventBus).                                                     *)
(*                                                                         *)
(* Handlers are translated as pure operators over a "world" record         *)
(*   w = [state  : the store's snapshot (GameState.state),                 *)
(*        template, shared : the initialState object, and the objects of   *)
(*                 state that are the template's own,                      *)
(*        log    : the events published so far during the current call,    *)
(*        active : SpawnerSystem.isActive]                                 *)
(* so that one action is one whole handler, nested calls included.         *)
(***************************************************************************)
EXTENDS Integers, Sequences, FiniteSets, TLC

VARIABLES
    state,         \* GameState.state
    template,      \* the module's initialState object
    shared,        \* paths of the objects inside state that are the template's own objects
    events,        \* events published during the last step, in order
    call,          \* the last step: [op, arg, ret]
    now,           \* Date.now()
    lastFireTime,  \* Weapon.lastFireTime, per Weapon instance
    enemies,       \* SpawnerSystem.enemies: sequence of Enemy records
    enemyIdCounter,\* SpawnerSystem.enemyIdCounter
    deadEnemies,   \* SpawnerSystem.deadEnemies: sequence of the ids of the Enemy objects held
    spawnTimer,    \* SpawnerSystem.spawnTimer, in milliseconds
    playerPosition,\* SpawnerSystem.playerPosition: [x, z]
    isActive,      \* SpawnerSystem.isActive
    subscribed,    \* Game.setupEventListeners has run
    listeners,     \* EventBus.listeners: per event name, the subscriptions in order
    raycastEnemies,\* RaycastSystem.enemies: [aliased, enemies], the spawner's array itself
                   \* (aliased) or an array of its own with these Enemy objects
    calls          \* number of calls made so far (counted only where a run is bounded)

vars == <<state, template, shared, events, call, now, lastFireTime, enemies, enemyIdCounter,
          deadEnemies, spawnTimer, playerPosition, isActive, subscribed, listeners, calls,
          raycastEnemies>>


----------------------------------------------------------------------------
(* Program constants (config/constants.js)                                 *)

ZOMBIE_HEALTH == 100
ZOMBIE_DAMAGE == 10
ATTACK_COOLDOWN == 1000
REWARD_KILL == 50
REWARD_HEADSHOT == 75
BASE_HEALTH == 100
PISTOL_FIRE_RATE == 300
SHOTGUN_FIRE_RATE == 800
SPAWN_INTERVAL == 3000
SPAWN_DISTANCE_MIN == 60
SPAWN_DISTANCE_MAX == 80
BODY_DESPAWN_TIME == 5000
MAP_BOUNDARY == 95

WeaponIds == {"pistol", "shotgun"}

\* WEAPONS[type].damage
WeaponDamage(type) == IF type = "shotgun" THEN 100 ELSE 50

\* Weapon.fireRate, set in the constructor
FireRate(type) == IF type = "shotgun" THEN SHOTGUN_FIRE_RATE ELSE PISTOL_FIRE_RATE

\* The Shop's catalogue: renderItems offers exactly these (item, type) pairs.
ShopItems ==
    { [id |-> "shotgun", type |-> "weapon", price |-> 50, armorPoints |-> 0, healthBonus |-> 0],
      [id |-> "armor1", type |-> "armor", price |-> 50, armorPoints |-> 25, healthBonus |-> 25],
      [id |-> "armor2", type |-> "armor", price |-> 100, armorPoints |-> 50, healthBonus |-> 50],
      [id |-> "armor3", type |-> "armor", price |-> 500, armorPoints |-> 100, healthBonus |-> 100],
      [id |-> "ammo", type |-> "ammo", price |-> 14, armorPoints |-> 0, healthBonus |-> 0],
      [id |-> "shotgunAmmo", type |-> "ammo", price |-> 20, armorPoints |-> 0, healthBonus |-> 0] }

----------------------------------------------------------------------------
(* Bounds of the model                                                     *)

MaxCoins == 100        \* addCoins is not taken beyond this many coins
MaxKills == 2          \* addKill is not taken beyond this many kills
StartTime == 5000      \* Date.now() at construction (any value past every cooldown)
MaxElapsed == 2000     \* the Weapons' clock is not advanced beyond StartTime + MaxElapsed
CombatElapsed == 1000  \* the entities' clock is not advanced beyond StartTime + CombatElapsed
MaxEnemies == 2        \* at most this many Enemy objects are created
MaxCalls == 5          \* a bounded run of the whole store makes at most this many calls
SpawnElapsed == 6000   \* the spawner's clock is not advanced beyond StartTime + SpawnElapsed
RestartElapsed == 500  \* nor, where rounds are restarted, beyond StartTime + RestartElapsed
DeathElapsed == 4000   \* nor, where the player is attacked, beyond StartTime + DeathElapsed
DespawnElapsed == 8000 \* nor, where bodies are waited for, beyond StartTime + DespawnElapsed
MaxHits == 2           \* a line of fire meets at most this many entities
MaxListeners == 3      \* at most this many subscriptions are held at a time
MaxDepth == 1          \* the republishing callback publishes again below this depth only
MaxCoordinate == 2     \* ray origins lie on the integer grid within this distance of 0
Scale == 100           \* distances along a ray are kept in units of 1/Scale

Min(a, b) == IF a < b THEN a ELSE b
Max(a, b) == IF a > b THEN a ELSE b

----------------------------------------------------------------------------
(* Event Channel: publication                                              *)

Ev(name, data) == [name |-> name, data |-> data]
NoData == [none |-> TRUE]

\* How often, and whether, a name was published.
Count(log, name) == Cardinality({i \in DOMAIN log : log[i].name = name})
Published(log, name) == \E i \in DOMAIN log : log[i].name = name

----------------------------------------------------------------------------
(* Game State Store                                                        *)

initialState ==
    [ isPlaying |-> FALSE, isPaused |-> FALSE, shopOpen |-> FALSE, isFirstPerson |-> FALSE,
      player |-> [health |-> 100, maxHealth |-> 100, armor |-> 0, maxArmor |-> 0,
                  coins |-> 0, kills |-> 0],
      weapons |-> [current |-> "pistol", owned |-> <<"pistol">>,
                   ammo |-> [pistol |-> 12, shotgun |-> 0],
                   maxAmmo |-> [pistol |-> 12, shotgun |-> 6]] ]

\* The objects nested in the state: the paths of player, weapons and what weapons holds
ObjectPaths ==
    {<<"player">>, <<"weapons">>, <<"weapons", "owned">>, <<"weapons", "ammo">>,
     <<"weapons", "maxAmmo">>}

\* Mutant of DeepClone: a copy of the top level only, the nested objects are shared
CloneShallow(obj) == [value |-> obj, shared |-> ObjectPaths]

\* GameState.deepClone(obj) = JSON.parse(JSON.stringify(obj)): the state holds only
\* booleans, integers, strings, arrays and plain objects, which the round trip gives back
\* value for value, in objects that are all new: none is shared with obj.
DeepClone(obj) == [value |-> obj, shared |-> {}]

\* GameState.get(path), path already split at the dots
Get(s, path) ==
    IF Len(path) = 1 THEN s[path[1]]
    ELSE IF Len(path) = 2 THEN s[path[1]][path[2]]
    ELSE s[path[1]][path[2]][path[3]]

\* The assignment of setState: current[keys[last]] = value
Put(s, path, value) ==
    IF Len(path) = 1 THEN [s EXCEPT ![path[1]] = value]
    ELSE IF Len(path) = 2 THEN [s EXCEPT ![path[1]][path[2]] = value]
    ELSE [s EXCEPT ![path[1]][path[2]][path[3]] = value]

\* eventBus.emit(name, data) with no subscriber that writes to the model's state
Publish(w, name, data) == [w EXCEPT !.log = Append(@, Ev(name, data))]

\* A write through a reference: it lands in the template too when the object written
\* to (the one at the path without its last key) is one the template shares.
Write(w, path, value) ==
    [w EXCEPT !.state = Put(@, path, value),
              !.template = IF SubSeq(path, 1, Len(path) - 1) \in w.shared
                           THEN Put(@, path, value) ELSE @]

\* GameState.setState(path, value)
SetState(w, path, value) ==
    Publish(Write(w, path, value), "STATE_CHANGED",
            [path |-> path, oldValue |-> Get(w.state, path), newValue |-> value])

\* Mutant of OnPlayerDied: the spawner is not stopped
OnPlayerDiedKeepsSpawning(w) == SetState(w, <<"isPlaying">>, FALSE)

\* Game.onPlayerDied, the PLAYER_DIED subscriber registered by setupEventListeners
OnPlayerDied(w) == [SetState(w, <<"isPlaying">>, FALSE) EXCEPT !.active = FALSE]

\* eventBus.emit(PLAYER_DIED): delivered synchronously to Game.onPlayerDied
EmitPlayerDied(w) ==
    LET p == Publish(w, "PLAYER_DIED", NoData)
    IN  IF subscribed THEN OnPlayerDied(p) ELSE p

\* GameState.reset()
Reset(w) ==
    LET clone == DeepClone(w.template)
    IN  Publish([w EXCEPT !.state = clone.value, !.shared = clone.shared],
                "STATE_CHANGED", [path |-> <<"root">>, reset |-> TRUE])

\* GameState.addCoins(amount)
AddCoins(w, amount) ==
    SetState(w, <<"player", "coins">>, w.state.player.coins + amount)

\* Mutant of SpendCoinsRet: the funds are not compared with the amount
SpendCoinsRetUnchecked(w, amount) == w.state.player.coins >= 0

\* GameState.spendCoins(amount): the value returned
SpendCoinsRet(w, amount) == w.state.player.coins >= amount

\* GameState.spendCoins(amount): the effect
SpendCoins(w, amount) ==
    IF SpendCoinsRet(w, amount)
    THEN SetState(w, <<"player", "coins">>, w.state.player.coins - amount)
    ELSE w

\* Mutant of DamageArmor: the armor absorbs nothing
DamageArmorSkipped(w, amount) == [w |-> w, remaining |-> amount]

\* GameState.damage: the armor step; yields the world and the remaining amount
DamageArmor(w, amount) ==
    IF w.state.player.armor > 0
    THEN LET armorDamage == Min(w.state.player.armor, amount)
             w1 == SetState(w, <<"player", "armor">>, w.state.player.armor - armorDamage)
         IN  [w |-> IF w1.state.player.armor <= 0
                    THEN Publish(w1, "ARMOR_BROKEN", NoData) ELSE w1,
              remaining |-> amount - armorDamage]
    ELSE [w |-> w, remaining |-> amount]

\* Mutant of DamageHealth: the health is not floored at 0
DamageHealthUnfloored(w, remaining) ==
    IF remaining > 0
    THEN LET newHealth == w.state.player.health - remaining
             w2 == SetState(w, <<"player", "health">>, newHealth)
         IN  IF newHealth <= 0 THEN EmitPlayerDied(w2) ELSE w2
    ELSE w

\* GameState.damage: the health step
DamageHealth(w, remaining) ==
    IF remaining > 0
    THEN LET newHealth == Max(0, w.state.player.health - remaining)
             w2 == SetState(w, <<"player", "health">>, newHealth)
         IN  IF newHealth <= 0 THEN EmitPlayerDied(w2) ELSE w2
    ELSE w

\* Mutant of Damage: PLAYER_DAMAGED is published as soon as the armor has absorbed
DamageAnnouncedEarly(w, amount) ==
    LET a == DamageArmor(w, amount)
    IN  DamageHealth(Publish(a.w, "PLAYER_DAMAGED",
                             [amount |-> amount, remaining |-> a.w.state.player.health]),
                     a.remaining)

\* GameState.damage(amount)
Damage(w, amount) ==
    LET a == DamageArmor(w, amount)
        b == DamageHealth(a.w, a.remaining)
    IN  Publish(b, "PLAYER_DAMAGED",
                [amount |-> amount, remaining |-> b.state.player.health])

\* Mutant of Heal: the health is not capped at maxHealth
HealUncapped(w, amount) ==
    SetState(w, <<"player", "health">>, w.state.player.health + amount)

\* GameState.heal(amount)
Heal(w, amount) ==
    SetState(w, <<"player", "health">>,
             Min(w.state.player.maxHealth, w.state.player.health + amount))

\* Mutant of AddArmor: the purchase is added to what the player already has
AddArmorStacked(w, armorPoints, healthBonus) ==
    LET w1 == SetState(w, <<"player", "maxArmor">>, w.state.player.maxArmor + armorPoints)
        w2 == SetState(w1, <<"player", "armor">>, w.state.player.armor + armorPoints)
        w3 == SetState(w2, <<"player", "maxHealth">>,
                       w.state.player.maxHealth + healthBonus)
    IN  SetState(w3, <<"player", "health">>, w.state.player.health + healthBonus)

\* GameState.addArmor(armorPoints, healthBonus)
AddArmor(w, armorPoints, healthBonus) ==
    LET w1 == SetState(w, <<"player", "maxArmor">>, armorPoints)
        w2 == SetState(w1, <<"player", "armor">>, armorPoints)
        w3 == SetState(w2, <<"player", "maxHealth">>, BASE_HEALTH + healthBonus)
    IN  SetState(w3, <<"player", "health">>, BASE_HEALTH + healthBonus)

\* GameState.addKill(isHeadshot)
AddKill(w, isHeadshot) ==
    Publish(SetState(w, <<"player", "kills">>, w.state.player.kills + 1),
            IF isHeadshot THEN "ENEMY_HEADSHOT" ELSE "ENEMY_KILLED", NoData)

\* Array.prototype.includes on weapons.owned
Owns(s, weaponId) == \E i \in DOMAIN s.weapons.owned : s.weapons.owned[i] = weaponId

\* Mutant of SwitchWeaponRet: ownership is not checked
SwitchWeaponRetUnchecked(w, weaponId) == weaponId \in WeaponIds

\* GameState.switchWeapon(weaponId): the value returned
SwitchWeaponRet(w, weaponId) == Owns(w.state, weaponId)

\* GameState.switchWeapon(weaponId): the effect
SwitchWeapon(w, weaponId) ==
    IF SwitchWeaponRet(w, weaponId)
    THEN Publish(SetState(w, <<"weapons", "current">>, weaponId),
                 "WEAPON_SWITCHED", [weapon |-> weaponId])
    ELSE w

\* GameState.addWeapon(weaponId): push in place, then setState with the same array
AddWeapon(w, weaponId) ==
    IF ~Owns(w.state, weaponId)
    THEN LET pushed ==
                 [w EXCEPT !.state.weapons.owned = Append(@, weaponId),
                           !.template.weapons.owned =
                               IF <<"weapons", "owned">> \in w.shared
                               THEN Append(@, weaponId) ELSE @]
         IN  SetState(pushed, <<"weapons", "owned">>, pushed.state.weapons.owned)
    ELSE w

\* GameState.useAmmo(): the value returned
UseAmmoRet(w) == w.state.weapons.ammo[w.state.weapons.current] > 0

\* Mutant of UseAmmo: WEAPON_FIRED carries the count before the decrement
UseAmmoStaleCount(w) ==
    LET weapon == w.state.weapons.current
        currentAmmo == w.state.weapons.ammo[weapon]
    IN  IF currentAmmo > 0
        THEN Publish(SetState(w, <<"weapons", "ammo", weapon>>, currentAmmo - 1),
                     "WEAPON_FIRED", [weapon |-> weapon, ammoLeft |-> currentAmmo])
        ELSE Publish(w, "WEAPON_EMPTY", [weapon |-> weapon])

\* GameState.useAmmo(): the effect
UseAmmo(w) ==
    LET weapon == w.state.weapons.current
        currentAmmo == w.state.weapons.ammo[weapon]
    IN  IF currentAmmo > 0
        THEN Publish(SetState(w, <<"weapons", "ammo", weapon>>, currentAmmo - 1),
                     "WEAPON_FIRED", [weapon |-> weapon, ammoLeft |-> currentAmmo - 1])
        ELSE Publish(w, "WEAPON_EMPTY", [weapon |-> weapon])

\* Mutant of ReloadWeapon: a full magazine is added to what is left
ReloadWeaponAdds(w, weaponId) ==
    SetState(w, <<"weapons", "ammo", weaponId>>,
             w.state.weapons.ammo[weaponId] + w.state.weapons.maxAmmo[weaponId])

\* GameState.reloadWeapon(weaponId)
ReloadWeapon(w, weaponId) ==
    SetState(w, <<"weapons", "ammo", weaponId>>, w.state.weapons.maxAmmo[weaponId])

----------------------------------------------------------------------------
(* Shop                                                                    *)

\* Shop.purchaseItem: the switch on the item's type, after the coins are spent
ApplyItem(w, item) ==
    IF item.type = "weapon" THEN ReloadWeapon(AddWeapon(w, item.id), item.id)
    ELSE IF item.type = "armor" THEN AddArmor(w, item.armorPoints, item.healthBonus)
    ELSE ReloadWeapon(w, IF item.id = "ammo" THEN "pistol" ELSE "shotgun")

\* Mutant of PurchaseItem: the item is handed over whether or not the coins were spent
PurchaseItemUnpaid(w, item) ==
    Publish(ApplyItem(SpendCoins(w, item.price), item), "ITEM_PURCHASED",
            [item |-> item.id, type |-> item.type])

\* What a JavaScript call evaluates to: a boolean, or undefined when the function ends
\* in a bare return or runs off its end
Boolean(b) == [type |-> "boolean", value |-> b]
Undefined == [type |-> "undefined"]

\* Shop.purchaseItem(item, type): the value returned, on both paths
PurchaseItemRet(w, item) == Undefined

\* Shop.purchaseItem(item, type)
PurchaseItem(w, item) ==
    IF ~SpendCoinsRet(w, item.price)
    THEN Publish(SpendCoins(w, item.price), "PURCHASE_FAILED",
                 [item |-> item.id, reason |-> "insufficient_funds"])
    ELSE Publish(ApplyItem(SpendCoins(w, item.price), item), "ITEM_PURCHASED",
                 [item |-> item.id, type |-> item.type])

----------------------------------------------------------------------------
(* Weapon                                                                  *)

\* Mutant of CanFire: the fire-rate interval is not checked
CanFireNoCooldown(s, type, last, t) == s.weapons.ammo[type] > 0

\* Weapon.canFire() of the Weapon of this type, at time t
CanFire(s, type, last, t) ==
    s.weapons.ammo[type] > 0 /\ t - last >= FireRate(type)

\* Weapon.fire(): what it does to the store and the Event Channel
Fire(w, type, last, t) ==
    IF ~CanFire(w.state, type, last, t)
    THEN IF w.state.weapons.ammo[type] <= 0
         THEN Publish(w, "WEAPON_EMPTY", [weapon |-> type])
         ELSE w
    ELSE UseAmmo(w)

\* Weapon.fire(): this.lastFireTime afterwards
FireTime(s, type, last, t) == IF CanFire(s, type, last, t) THEN t ELSE last

----------------------------------------------------------------------------
(* Hostile Entity                                                          *)

\* new Enemy(id)
NewEnemy(id) ==
    [id |-> id, health |-> ZOMBIE_HEALTH, isDead |-> FALSE, deathTime |-> 0,
     lastAttackTime |-> 0, head |-> TRUE]

\* Enemy.die(isHeadshot)
Die(e, isHeadshot, t) ==
    [e EXCEPT !.isDead = TRUE, !.deathTime = t,
              !.head = IF isHeadshot THEN FALSE ELSE @]

\* Enemy.takeDamage(amount, isHeadshot): the value returned (killed)
TakeDamageRet(e, amount) == ~e.isDead /\ e.health - amount <= 0

\* Mutant of TakeDamage: a dead entity is damaged like a living one
TakeDamageUnguarded(e, amount, isHeadshot, t) ==
    LET hit == [e EXCEPT !.health = @ - amount]
    IN  IF hit.health <= 0 THEN Die(hit, isHeadshot, t) ELSE hit

\* Enemy.takeDamage(amount, isHeadshot): the effect
TakeDamage(e, amount, isHeadshot, t) ==
    IF e.isDead THEN e
    ELSE LET hit == [e EXCEPT !.health = @ - amount]
         IN  IF hit.health <= 0 THEN Die(hit, isHeadshot, t) ELSE hit

\* Mutant of CanAttack: the life state is not checked
CanAttackWhenDead(e, t) == t - e.lastAttackTime >= ATTACK_COOLDOWN

\* Enemy.canAttack()
CanAttack(e, t) == ~e.isDead /\ t - e.lastAttackTime >= ATTACK_COOLDOWN

\* Enemy.attack(): the damage returned
AttackRet(e, t) == IF ~CanAttack(e, t) THEN 0 ELSE ZOMBIE_DAMAGE

\* Enemy.attack(): the effect
Attack(e, t) == IF ~CanAttack(e, t) THEN e ELSE [e EXCEPT !.lastAttackTime = t]

\* SpawnerSystem.getLivingEnemies(): the indices of the living, in order
Living(es) == {i \in DOMAIN es : ~es[i].isDead}

\* Game.checkEnemyAttacks(): the loop from the i-th enemy on; inRange is the set of
\* enemies for which isInAttackRange(playerPos) holds
RECURSIVE AttacksFrom(_, _, _, _, _)
AttacksFrom(w, es, inRange, t, i) ==
    IF i > Len(es) THEN [w |-> w, enemies |-> es]
    ELSE IF i \in Living(es) /\ i \in inRange /\ CanAttack(es[i], t)
         THEN AttacksFrom(Damage(w, AttackRet(es[i], t)),
                          [es EXCEPT ![i] = Attack(@, t)], inRange, t, i + 1)
         ELSE AttacksFrom(w, es, inRange, t, i + 1)

\* Game.checkEnemyAttacks()
CheckEnemyAttacks(w, es, inRange, t) == AttacksFrom(w, es, inRange, t, 1)

----------------------------------------------------------------------------
(* Lifecycle Manager (SpawnerSystem)                                       *)
(* Its operations are operators over a record                              *)
(*   sp = [enemies, deadEnemies, spawnTimer, enemyIdCounter : the fields,  *)
(*         spawned  : the entities created during the call, with the       *)
(*                    position each was given,                             *)
(*         updated  : the ids of the entities whose update() was called,   *)
(*                    one entry per call, in the order of the calls,       *)
(*         released : the ids passed to scene.remove and dispose, in order]*)

\* Mutant of Clamp: only the upper bound is applied
ClampUpperOnly(v) == Min(MAP_BOUNDARY, v)

\* Math.max(-MAP.BOUNDARY, Math.min(MAP.BOUNDARY, v))
Clamp(v) == Max(-MAP_BOUNDARY, Min(MAP_BOUNDARY, v))

\* Mutant of GetSpawnPosition: the cosine term is used on both axes
GetSpawnPositionCosOnly(player, offset) ==
    [x |-> Clamp(player.x + offset.x), z |-> Clamp(player.z + offset.x)]

\* SpawnerSystem.getSpawnPosition(); offset = (cos(angle) * distance, sin(angle) * distance)
GetSpawnPosition(player, offset) ==
    [x |-> Clamp(player.x + offset.x), z |-> Clamp(player.z + offset.z)]

\* SpawnerSystem.spawnEnemy(), the position being the one getSpawnPosition returned
SpawnEnemy(sp, position) ==
    [sp EXCEPT !.enemies = Append(@, NewEnemy(sp.enemyIdCounter)),
               !.enemyIdCounter = @ + 1,
               !.spawned = Append(@, [id |-> sp.enemyIdCounter, position |-> position])]

\* Array.prototype.indexOf, 1-based; 0 where JavaScript gives -1
IndexOf(seq, x) ==
    IF \E i \in DOMAIN seq : seq[i] = x
    THEN CHOOSE i \in DOMAIN seq : seq[i] = x /\ \A j \in 1..(i - 1) : seq[j] # x
    ELSE 0

\* The index in the active set of the Enemy object with this id
IndexOfId(es, id) == IndexOf([i \in DOMAIN es |-> es[i].id], id)

\* Array.prototype.splice(index, 1)
Splice(seq, index) ==
    [j \in 1..(Len(seq) - 1) |-> IF j < index THEN seq[j] ELSE seq[j + 1]]

\* Mutant of ShouldRemove: the body is due as soon as the despawn time has passed
ShouldRemoveAtLimit(e, t) == e.isDead /\ t - e.deathTime >= BODY_DESPAWN_TIME

\* Enemy.update(): the value returned (true: the body has lain longer than the despawn time)
ShouldRemove(e, t) == e.isDead /\ t - e.deathTime > BODY_DESPAWN_TIME

\* Mutant of RemoveEnemy: the dead-tracking set is left as it is
RemoveEnemyKeepDead(sp, index) ==
    [sp EXCEPT !.released = Append(@, sp.enemies[index].id),
               !.enemies = Splice(@, index)]

\* SpawnerSystem.removeEnemy(index)
RemoveEnemy(sp, index) ==
    LET enemy == sp.enemies[index]
        deadIndex == IndexOf(sp.deadEnemies, enemy.id)
    IN  [sp EXCEPT !.released = Append(@, enemy.id),
                   !.enemies = Splice(@, index),
                   !.deadEnemies = IF deadIndex > 0 THEN Splice(@, deadIndex) ELSE @]

\* Mutant of ObserveEnemy: a dead entity is pushed without looking it up first
ObserveEnemyRepeated(sp, t, i) ==
    LET enemy == sp.enemies[i]
        seen == [sp EXCEPT !.updated = Append(@, enemy.id)]
    IN  IF ShouldRemove(enemy, t) THEN RemoveEnemy(seen, i)
        ELSE IF enemy.isDead
        THEN [seen EXCEPT !.deadEnemies = Append(@, enemy.id)]
        ELSE seen

\* SpawnerSystem.updateEnemies(): the body of the loop, for the i-th enemy
ObserveEnemy(sp, t, i) ==
    LET enemy == sp.enemies[i]
        seen == [sp EXCEPT !.updated = Append(@, enemy.id)]
    IN  IF ShouldRemove(enemy, t) THEN RemoveEnemy(seen, i)
        ELSE IF enemy.isDead /\ IndexOf(seen.deadEnemies, enemy.id) = 0
        THEN [seen EXCEPT !.deadEnemies = Append(@, enemy.id)]
        ELSE seen

\* SpawnerSystem.updateEnemies(): the loop, from the i-th enemy down to the first
RECURSIVE UpdateEnemiesFrom(_, _, _)
UpdateEnemiesFrom(sp, t, i) ==
    IF i < 1 THEN sp ELSE UpdateEnemiesFrom(ObserveEnemy(sp, t, i), t, i - 1)

\* Mutant of UpdateEnemies: the loop runs from the first enemy up, the length read anew
\* at each turn
RECURSIVE UpdateEnemiesUpFrom(_, _, _)
UpdateEnemiesUpFrom(sp, t, i) ==
    IF i > Len(sp.enemies) THEN sp ELSE UpdateEnemiesUpFrom(ObserveEnemy(sp, t, i), t, i + 1)
UpdateEnemiesForward(sp, t) == UpdateEnemiesUpFrom(sp, t, 1)

\* SpawnerSystem.updateEnemies(deltaTime)
UpdateEnemies(sp, t) == UpdateEnemiesFrom(sp, t, Len(sp.enemies))

\* SpawnerSystem.cleanupDeadEnemies(): the loop, from the i-th tracked body down to the first
RECURSIVE CleanupFrom(_, _, _)
CleanupFrom(sp, t, i) ==
    IF i < 1 THEN sp
    ELSE LET enemyIndex == IndexOfId(sp.enemies, sp.deadEnemies[i])
         IN  CleanupFrom(IF enemyIndex > 0 /\ ShouldRemove(sp.enemies[enemyIndex], t)
                         THEN RemoveEnemy(sp, enemyIndex) ELSE sp,
                         t, i - 1)

\* SpawnerSystem.cleanupDeadEnemies()
CleanupDeadEnemies(sp, t) == CleanupFrom(sp, t, Len(sp.deadEnemies))

\* Mutant of SpawnTimerAfter: the interval is subtracted instead of the timer being reset
SpawnTimerCarried(timer, dt) ==
    IF timer + dt >= SPAWN_INTERVAL THEN timer + dt - SPAWN_INTERVAL ELSE timer + dt

\* SpawnerSystem.update(): this.spawnTimer after the accumulation and the test (dt in ms)
SpawnTimerAfter(timer, dt) ==
    IF timer + dt >= SPAWN_INTERVAL THEN 0 ELSE timer + dt

\* SpawnerSystem.update(deltaTime), deltaTime * 1000 = dt
Update(sp, active, dt, position, t) ==
    IF ~active THEN sp
    ELSE LET timed == [sp EXCEPT !.spawnTimer = SpawnTimerAfter(@, dt)]
             spawn == IF sp.spawnTimer + dt >= SPAWN_INTERVAL
                      THEN SpawnEnemy(timed, position) ELSE timed
         IN  CleanupDeadEnemies(UpdateEnemies(spawn, t), t)

\* Mutant of Clear: the identity counter starts over
ClearResetsCounter(sp) ==
    [sp EXCEPT !.released = @ \o [i \in DOMAIN sp.enemies |-> sp.enemies[i].id],
               !.enemies = <<>>,
               !.deadEnemies = <<>>,
               !.enemyIdCounter = 0]

\* Mutant of Clear: the dead-tracking set is not emptied
ClearKeepDead(sp) ==
    [sp EXCEPT !.released = @ \o [i \in DOMAIN sp.enemies |-> sp.enemies[i].id],
               !.enemies = <<>>]

\* SpawnerSystem.clear()
Clear(sp) ==
    [sp EXCEPT !.released = @ \o [i \in DOMAIN sp.enemies |-> sp.enemies[i].id],
               !.enemies = <<>>,
               !.deadEnemies = <<>>]

----------------------------------------------------------------------------
(* Hit-Scan Resolver (RaycastSystem)                                       *)
(* A ray is [through : the entities the line of fire meets, nearest first, *)
(*           as indices in the enemies array,                              *)
(*           high : the point where it meets the nearest gathered mesh     *)
(*           lies above that entity's position by more than                *)
(*           HEADSHOT_Y_THRESHOLD].                                        *)

\* Mutant of Candidates: the meshes of the dead are gathered too
CandidatesWithDead(es) == DOMAIN es

\* RaycastSystem.shoot: the entities whose meshes are gathered into zombieMeshes
Candidates(es) == {i \in DOMAIN es : ~es[i].isDead}

\* raycaster.intersectObjects(zombieMeshes): the intersections with the gathered meshes,
\* nearest first
IntersectObjects(candidates, ray) == SelectSeq(ray.through, LAMBDA i : i \in candidates)

\* Mutant of Reward: every kill is paid as a body kill
RewardFlat(isHeadshot) == REWARD_KILL

\* RaycastSystem.shoot: reward
Reward(isHeadshot) == IF isHeadshot THEN REWARD_HEADSHOT ELSE REWARD_KILL

\* Mutant of Shoot: the bodies are hit and paid for like the living
ShootAtBodies(w, es, ray, damage, t) ==
    LET intersects == IntersectObjects(DOMAIN es, ray)
    IN  IF Len(intersects) > 0
        THEN LET i == intersects[1]
                 isHeadshot == ray.high
                 paid == AddKill(AddCoins(w, Reward(isHeadshot)), isHeadshot)
             IN  [enemies |-> [es EXCEPT ![i] = TakeDamage(@, damage, isHeadshot, t)],
                  w |-> IF es[i].health - damage <= 0
                        THEN Publish(paid,
                                     IF isHeadshot THEN "ENEMY_HEADSHOT" ELSE "ENEMY_KILLED",
                                     [enemy |-> es[i].id, reward |-> Reward(isHeadshot)])
                        ELSE w]
        ELSE [enemies |-> es, w |-> w]

\* RaycastSystem.shoot(damage), this.enemies being the array es; yields the world and the
\* enemies afterwards
Shoot(w, es, ray, damage, t) ==
    LET intersects == IntersectObjects(Candidates(es), ray)
    IN  IF Len(intersects) > 0 /\ ~es[intersects[1]].isDead
        THEN LET i == intersects[1]
                 isHeadshot == ray.high
                 killed == TakeDamageRet(es[i], damage)
                 paid == AddKill(AddCoins(w, Reward(isHeadshot)), isHeadshot)
             IN  [enemies |-> [es EXCEPT ![i] = TakeDamage(@, damage, isHeadshot, t)],
                  w |-> IF killed
                        THEN Publish(paid,
                                     IF isHeadshot THEN "ENEMY_HEADSHOT" ELSE "ENEMY_KILLED",
                                     [enemy |-> es[i].id, reward |-> Reward(isHeadshot)])
                        ELSE w]
        ELSE [enemies |-> es, w |-> w]

----------------------------------------------------------------------------
(* Event Channel: subscription and delivery (EventBus)                     *)

\* The event names delivered here
EventNames == {"PLAYER_DIED", "STATE_CHANGED"}

\* The callbacks subscribed: UIManager.showGameOver returns, errorCallback raises an
\* error, Game.onPlayerDied calls setState, republish publishes its own event again.
Callbacks == {"showGameOver", "errorCallback", "onPlayerDied", "republish"}

\* A subscription: the callback, and whether once() made it
Subscription(id, once) == [id |-> id, once |-> once]

\* The callback is subscribed to the name.
Has(ls, name, id) == \E i \in DOMAIN ls[name] : ls[name][i].id = id

\* on(name, callback)
On(ls, name, id) == [ls EXCEPT ![name] = Append(@, Subscription(id, FALSE))]

\* once(name, callback)
Once(ls, name, id) == [ls EXCEPT ![name] = Append(@, Subscription(id, TRUE))]

\* off(name, callback), also what the function returned by on() does
Off(ls, name, id) == [ls EXCEPT ![name] = SelectSeq(@, LAMBDA s : s.id # id)]

\* clear(name), and clear() for every name
ClearListeners(ls, name) ==
    IF name = "all" THEN [n \in EventNames |-> <<>>] ELSE [ls EXCEPT ![name] = <<>>]

\* One entry of the record of a delivery: a callback entered, returned or raised
Entry(id, name, payload, depth, phase) ==
    [id |-> id, name |-> name, payload |-> payload, depth |-> depth, phase |-> phase]

\* Mutant of HandlersFor: the latest subscription is served first
HandlersReversed(ls, name) ==
    [i \in 1..Len(ls[name]) |-> ls[name][Len(ls[name]) + 1 - i]]

\* The handlers a publish(name) invokes: those registered for the name, in
\* registration order
HandlersFor(ls, name) == ls[name]

\* Mutant of Consume: a once() subscription stays
ConsumeNever(b, name, s) == b

\* A once() subscription is removed right after its invocation.
Consume(b, name, s) ==
    IF s.once THEN [b EXCEPT !.listeners = Off(@, name, s.id)] ELSE b

\* Mutant of Catch: the error is left to propagate
CatchNothing(b, id) == b

\* The try/catch around each handler: an error raised is logged and goes no further.
Catch(b, id) ==
    IF b.raised THEN [b EXCEPT !.raised = FALSE, !.logged = Append(@, id)] ELSE b

RECURSIVE Emit(_, _, _, _)
RECURSIVE Deliver(_, _, _, _, _, _)

\* Mutant of RunOnPlayerDied: the handler returns without touching the store
RunOnPlayerDiedSilent(b, depth) == b

\* Game.onPlayerDied as a callback: gameState.setState('isPlaying', false) publishes
\* STATE_CHANGED from inside the delivery of PLAYER_DIED
RunOnPlayerDied(b, depth) == Emit(b, "STATE_CHANGED", "isPlaying", depth + 1)

\* The body of a callback invoked with (name, payload) at the given nesting depth
Run(b, id, name, payload, depth) ==
    CASE id = "errorCallback" -> [b EXCEPT !.raised = TRUE]
      [] id = "onPlayerDied" -> RunOnPlayerDied(b, depth)
      [] id = "republish" ->
            IF depth < MaxDepth THEN Emit(b, name, payload, depth + 1) ELSE b
      [] OTHER -> b

\* The loop of emit over the handlers, from the i-th on
Deliver(b, name, payload, depth, handlers, i) ==
    IF i > Len(handlers) \/ b.raised THEN b
    ELSE LET s == handlers[i]
             entered == [b EXCEPT !.trace =
                            Append(@, Entry(s.id, name, payload, depth, "enter"))]
             ran == Run(entered, s.id, name, payload, depth)
             left == [ran EXCEPT !.trace =
                         Append(@, Entry(s.id, name, payload, depth,
                                         IF ran.raised THEN "raise" ELSE "return"))]
         IN  Deliver(Catch(Consume(left, name, s), s.id), name, payload, depth,
                     handlers, i + 1)

\* emit(name, payload)
Emit(b, name, payload, depth) ==
    Deliver([b EXCEPT !.log = Append(@, Ev(name, payload))], name, payload, depth,
            HandlersFor(b.listeners, name), 1)

----------------------------------------------------------------------------
(* Collision Queries (CollisionSystem)                                     *)

\* THREE.Vector3: subVectors, dot, and origin + direction * t with t in 1/Scale
Vec(x, y, z) == [x |-> x, y |-> y, z |-> z]
SubVectors(u, v) == Vec(u.x - v.x, u.y - v.y, u.z - v.z)
Dot(u, v) == u.x * v.x + u.y * v.y + u.z * v.z
PointAt(origin, direction, t) ==
    Vec(origin.x * Scale + direction.x * t, origin.y * Scale + direction.y * t,
        origin.z * Scale + direction.z * t)

\* Math.sqrt(n) in units of 1/Scale, rounded down: the largest r with r * r <= n * Scale^2
RECURSIVE SqrtBetween(_, _, _)
SqrtBetween(n, lo, hi) ==
    IF lo >= hi THEN lo
    ELSE LET mid == (lo + hi + 1) \div 2
         IN  IF mid * mid <= n THEN SqrtBetween(n, mid, hi) ELSE SqrtBetween(n, lo, mid - 1)
Sqrt(n) == SqrtBetween(n * Scale * Scale, 0, Min(n * Scale, 40000))

\* What raycastSphere returns: null, or the hit with its distance and point
Null == [type |-> "null"]
HitInfo(t, point) == [type |-> "hit", distance |-> t, point |-> point]

\* Mutant of RaycastSphere: a root behind the origin is returned like any other
RaycastSphereAnyRoot(origin, direction, sphereCenter, radius) ==
    LET oc == SubVectors(origin, sphereCenter)
        a == Dot(direction, direction)
        b == 2 * Dot(oc, direction)
        c == Dot(oc, oc) - radius * radius
        discriminant == b * b - 4 * a * c
    IN  IF discriminant < 0 THEN Null
        ELSE LET t == (-b * Scale - Sqrt(discriminant)) \div (2 * a)
             IN  HitInfo(t, PointAt(origin, direction, t))

\* CollisionSystem.raycastSphere(origin, direction, sphereCenter, radius)
RaycastSphere(origin, direction, sphereCenter, radius) ==
    LET oc == SubVectors(origin, sphereCenter)
        a == Dot(direction, direction)
        b == 2 * Dot(oc, direction)
        c == Dot(oc, oc) - radius * radius
        discriminant == b * b - 4 * a * c
    IN  IF discriminant < 0 THEN Null
        ELSE LET t == (-b * Scale - Sqrt(discriminant)) \div (2 * a)
             IN  IF t < 0 THEN Null ELSE HitInfo(t, PointAt(origin, direction, t))

----------------------------------------------------------------------------
(* Inputs of the operations                                                *)

DamageAmounts == {0, 10, 25, 50, 150}
HealAmounts == {0, 25, 50}
CoinAmounts == {REWARD_KILL, REWARD_HEADSHOT}
SpendAmounts == {0, 50, 100}
ArmorItems == {i \in ShopItems : i.type = "armor"}
ArsenalItems == ShopItems \ ArmorItems
ShotDamages == {WeaponDamage(t) : t \in WeaponIds}
WeaponSteps == {300, 500}
CombatSteps == {500, 1000}
SpawnSteps == {2500, 3000}
TickDeltas == {1000, 1500, 7000}
FrameDeltas == {0, 1500}
FramePositions == {[x |-> 90, z |-> 0]}
FrameOffsets == {[x |-> 60, z |-> 0], [x |-> -36, z |-> 48]}
SpawnOffsets ==
    { [x |-> 60, z |-> 0], [x |-> -80, z |-> 0], [x |-> 0, z |-> 60], [x |-> 0, z |-> -80],
      [x |-> 48, z |-> 64], [x |-> -36, z |-> 48], [x |-> 64, z |-> -48],
      [x |-> -48, z |-> -36] }
NoOffset == [x |-> 0, z |-> 0]
PlayerCoordinates == {-150, -90, 0, 15, 90}
PlayerPositions == [x : PlayerCoordinates, z : PlayerCoordinates]

Payloads == {"first", "second"}

\* The rays and spheres raycastSphere is asked about
RaycastInputs ==
    [origin : {Vec(x, y, z) : x \in -MaxCoordinate..MaxCoordinate, y \in {0, 1},
                              z \in -MaxCoordinate..MaxCoordinate},
     direction : {Vec(0, 0, 1), Vec(0, 0, -1), Vec(1, 0, 0), Vec(1, 0, 1), Vec(-1, 1, 0),
                  Vec(1, 2, 2), Vec(0, 1, -2), Vec(-2, 0, 1)},
     sphereCenter : {Vec(0, 0, 0), Vec(1, 1, -1)},
     radius : {1, 2}]

\* What may be subscribed where: Game.onPlayerDied listens to PLAYER_DIED only
Subscribable(name, id) == id = "onPlayerDied" => name = "PLAYER_DIED"

\* The rays through the entities of an array: at most MaxHits entities, none met twice
LinesThrough(es) ==
    {through \in UNION {[1..n -> DOMAIN es] : n \in 0..MaxHits} :
        \A j, k \in DOMAIN through : j # k => through[j] # through[k]}
Lines == LinesThrough(enemies)
Rays == [through : Lines, high : BOOLEAN]

----------------------------------------------------------------------------
(* Actions: one call of one operation                                      *)

\* The world a call starts from: nothing published yet.
W0 ==
    [state |-> state, template |-> template, shared |-> shared, log |-> <<>>,
     active |-> isActive]

\* The call's effect on the store, and the record of the call.
Commit(w, op, arg, ret) ==
    /\ state' = w.state
    /\ template' = w.template
    /\ shared' = w.shared
    /\ events' = w.log
    /\ isActive' = w.active
    /\ call' = [op |-> op, arg |-> arg, ret |-> ret]

\* What a call to the store alone leaves as it is.
StoreOnly ==
    UNCHANGED <<raycastEnemies, listeners, now, lastFireTime, enemies, enemyIdCounter, deadEnemies,
                spawnTimer, playerPosition, subscribed>>

DoDamage ==
    /\ \E d \in DamageAmounts : Commit(Damage(W0, d), "damage", d, TRUE)
    /\ StoreOnly

DoHeal ==
    /\ \E h \in HealAmounts : Commit(Heal(W0, h), "heal", h, TRUE)
    /\ StoreOnly

DoAddArmor ==
    /\ \E i \in ArmorItems :
          Commit(AddArmor(W0, i.armorPoints, i.healthBonus), "addArmor",
                 [armorPoints |-> i.armorPoints, healthBonus |-> i.healthBonus], TRUE)
    /\ StoreOnly

DoAddCoins ==
    /\ \E n \in CoinAmounts :
          /\ state.player.coins + n <= MaxCoins
          /\ Commit(AddCoins(W0, n), "addCoins", n, TRUE)
    /\ StoreOnly

DoSpendCoins ==
    /\ \E n \in SpendAmounts :
          Commit(SpendCoins(W0, n), "spendCoins", n, SpendCoinsRet(W0, n))
    /\ StoreOnly

DoAddKill ==
    /\ state.player.kills < MaxKills
    /\ \E hs \in BOOLEAN : Commit(AddKill(W0, hs), "addKill", hs, TRUE)
    /\ StoreOnly

DoSwitchWeapon ==
    /\ \E id \in WeaponIds :
          Commit(SwitchWeapon(W0, id), "switchWeapon", id, SwitchWeaponRet(W0, id))
    /\ StoreOnly

DoAddWeapon ==
    /\ \E id \in WeaponIds : Commit(AddWeapon(W0, id), "addWeapon", id, TRUE)
    /\ StoreOnly

DoUseAmmo ==
    /\ Commit(UseAmmo(W0), "useAmmo", state.weapons.current, UseAmmoRet(W0))
    /\ StoreOnly

DoReloadWeapon ==
    /\ \E id \in WeaponIds : Commit(ReloadWeapon(W0, id), "reloadWeapon", id, TRUE)
    /\ StoreOnly

DoReset ==
    /\ Commit(Reset(W0), "reset", state.weapons.owned, TRUE)
    /\ StoreOnly

\* Shop.purchaseItem of one of the given catalogue items
Purchase(items) ==
    /\ \E i \in items :
          Commit(PurchaseItem(W0, i), "purchaseItem", i.id, PurchaseItemRet(W0, i))
    /\ StoreOnly

DoPurchase == Purchase(ShopItems)
DoPurchaseArmor == Purchase(ArmorItems)
DoPurchaseArsenal == Purchase(ArsenalItems)

\* Weapon.fire() on the Weapon instance of one type
DoFire ==
    /\ \E type \in WeaponIds :
          /\ Commit(Fire(W0, type, lastFireTime[type], now), "fire", type,
                    CanFire(state, type, lastFireTime[type], now))
          /\ lastFireTime' =
                [lastFireTime EXCEPT ![type] = FireTime(state, type, @, now)]
    /\ UNCHANGED <<raycastEnemies, listeners, now, enemies, enemyIdCounter, deadEnemies, spawnTimer,
                   playerPosition, subscribed>>

\* Time passes: Date.now() grows by one of the given steps
Advance(steps, limit) ==
    /\ \E dt \in steps :
          /\ now + dt <= StartTime + limit
          /\ now' = now + dt
          /\ call' = [op |-> "advance", arg |-> dt, ret |-> TRUE]
    /\ events' = <<>>
    /\ UNCHANGED <<raycastEnemies, listeners, state, template, shared, lastFireTime, enemies,
                   enemyIdCounter, deadEnemies, spawnTimer, playerPosition, isActive,
                   subscribed>>

\* The spawner a call starts from: nothing created, updated or released yet.
Sp0 ==
    [enemies |-> enemies, deadEnemies |-> deadEnemies, spawnTimer |-> spawnTimer,
     enemyIdCounter |-> enemyIdCounter, spawned |-> <<>>, updated |-> <<>>,
     released |-> <<>>]

\* The call's effect on the spawner, and the record of the call.
CommitSp(sp, op, arg) ==
    /\ enemies' = sp.enemies
    /\ deadEnemies' = sp.deadEnemies
    /\ spawnTimer' = sp.spawnTimer
    /\ enemyIdCounter' = sp.enemyIdCounter
    /\ call' = [op |-> op, arg |-> arg,
                ret |-> [spawned |-> sp.spawned, updated |-> sp.updated,
                         released |-> sp.released]]
    /\ events' = <<>>

\* What a call to the spawner alone leaves as it is.
SpawnerOnly == UNCHANGED <<raycastEnemies, listeners, state, template, shared, now, lastFireTime,
                           playerPosition, isActive, subscribed>>

\* RaycastSystem.enemies once the spawner has assigned itself a new array (clear()): the
\* array it was given by setEnemies, with the Enemy objects that were in it
Dropped ==
    IF raycastEnemies.aliased THEN [aliased |-> FALSE, enemies |-> enemies]
    ELSE raycastEnemies

\* The Enemy objects in RaycastSystem.enemies
Targets == IF raycastEnemies.aliased THEN enemies ELSE raycastEnemies.enemies

\* SpawnerSystem.spawnEnemy(), with any angle and distance drawn by getSpawnPosition
DoSpawnEnemy ==
    /\ enemyIdCounter < MaxEnemies
    /\ \E o \in SpawnOffsets :
          CommitSp(SpawnEnemy(Sp0, GetSpawnPosition(playerPosition, o)), "spawnEnemy", o)
    /\ SpawnerOnly

\* SpawnerSystem.update(deltaTime); an angle and a distance are drawn only by a tick that
\* spawns
Tick(deltas) ==
    /\ \E dt \in deltas :
          LET spawns == isActive /\ spawnTimer + dt >= SPAWN_INTERVAL
          IN  /\ spawns => enemyIdCounter < MaxEnemies
              /\ \E o \in (IF spawns THEN SpawnOffsets ELSE {NoOffset}) :
                    CommitSp(Update(Sp0, isActive, dt, GetSpawnPosition(playerPosition, o), now),
                             "update", [dt |-> dt, offset |-> o])
    /\ SpawnerOnly

DoUpdate == Tick(TickDeltas)

\* SpawnerSystem.removeEnemy(index)
DoRemoveEnemy ==
    /\ \E i \in DOMAIN enemies : CommitSp(RemoveEnemy(Sp0, i), "removeEnemy", i)
    /\ SpawnerOnly

\* SpawnerSystem.cleanupDeadEnemies()
DoCleanupDeadEnemies ==
    /\ CommitSp(CleanupDeadEnemies(Sp0, now), "cleanupDeadEnemies", "none")
    /\ SpawnerOnly

\* SpawnerSystem.clear()
DoClear ==
    /\ CommitSp(Clear(Sp0), "clear", "none")
    /\ raycastEnemies' = Dropped
    /\ UNCHANGED <<listeners, state, template, shared, now, lastFireTime, playerPosition,
                   isActive, subscribed>>

\* RaycastSystem.shoot(damage) along any ray; Game.update has set this.enemies to the
\* spawner's array
ShootWith(damages) ==
    /\ \E damage \in damages, ray \in Rays :
          LET r == Shoot(W0, enemies, ray, damage, now)
          IN  /\ Commit(r.w, "shoot", [damage |-> damage, ray |-> ray], TRUE)
              /\ enemies' = r.enemies
    /\ UNCHANGED <<raycastEnemies, listeners, now, lastFireTime, enemyIdCounter, deadEnemies, spawnTimer,
                   playerPosition, subscribed>>

DoShoot == ShootWith(ShotDamages)

\* SpawnerSystem.start()
DoStart ==
    /\ isActive' = TRUE
    /\ call' = [op |-> "start", arg |-> "none", ret |-> TRUE]
    /\ events' = <<>>
    /\ UNCHANGED <<raycastEnemies, listeners, state, template, shared, now, lastFireTime, enemies,
                   enemyIdCounter, deadEnemies, spawnTimer, playerPosition, subscribed>>

\* SpawnerSystem.stop()
DoStop ==
    /\ isActive' = FALSE
    /\ call' = [op |-> "stop", arg |-> "none", ret |-> TRUE]
    /\ events' = <<>>
    /\ UNCHANGED <<raycastEnemies, listeners, state, template, shared, now, lastFireTime, enemies,
                   enemyIdCounter, deadEnemies, spawnTimer, playerPosition, subscribed>>

\* Game.restartGame(): the store is reset and set playing, the spawner cleared and
\* started, GAME_RESTARTED published
DoRestartGame ==
    /\ LET w == Publish(SetState(Reset(W0), <<"isPlaying">>, TRUE), "GAME_RESTARTED", NoData)
           sp == Clear(Sp0)
       IN  /\ state' = w.state
           /\ template' = w.template
           /\ shared' = w.shared
           /\ events' = w.log
           /\ enemies' = sp.enemies
           /\ deadEnemies' = sp.deadEnemies
           /\ spawnTimer' = sp.spawnTimer
           /\ enemyIdCounter' = sp.enemyIdCounter
           /\ call' = [op |-> "restartGame", arg |-> "none",
                       ret |-> [spawned |-> sp.spawned, updated |-> sp.updated,
                                released |-> sp.released]]
    /\ isActive' = TRUE
    /\ raycastEnemies' = Dropped
    /\ UNCHANGED <<listeners, now, lastFireTime, playerPosition, subscribed>>

\* SpawnerSystem.setPlayerPosition(position)
DoSetPlayerPosition ==
    /\ \E p \in PlayerPositions :
          /\ playerPosition' = p
          /\ call' = [op |-> "setPlayerPosition", arg |-> p, ret |-> TRUE]
    /\ events' = <<>>
    /\ UNCHANGED <<raycastEnemies, listeners, state, template, shared, now, lastFireTime, enemies,
                   enemyIdCounter, deadEnemies, spawnTimer, isActive, subscribed>>

\* Enemy.takeDamage(amount, isHeadshot) on the i-th enemy
TakeDamageOf(amounts, headshots) ==
    /\ \E i \in DOMAIN enemies, amount \in amounts, hs \in headshots :
          /\ enemies' = [enemies EXCEPT ![i] = TakeDamage(@, amount, hs, now)]
          /\ call' = [op |-> "takeDamage", arg |-> <<i, amount, hs>>,
                      ret |-> TakeDamageRet(enemies[i], amount)]
    /\ events' = <<>>
    /\ UNCHANGED <<raycastEnemies, listeners, state, template, shared, now, lastFireTime, enemyIdCounter,
                   deadEnemies, spawnTimer, playerPosition, isActive, subscribed>>

DoTakeDamage == TakeDamageOf(ShotDamages, BOOLEAN)

\* A body shot of the shotgun: it kills a fresh entity at once
DoLethalShot == TakeDamageOf({WeaponDamage("shotgun")}, {FALSE})

\* Enemy.attack() on the i-th enemy
DoAttack ==
    /\ \E i \in DOMAIN enemies :
          /\ enemies' = [enemies EXCEPT ![i] = Attack(@, now)]
          /\ call' = [op |-> "attack", arg |-> i, ret |-> AttackRet(enemies[i], now)]
    /\ events' = <<>>
    /\ UNCHANGED <<raycastEnemies, listeners, state, template, shared, now, lastFireTime, enemyIdCounter,
                   deadEnemies, spawnTimer, playerPosition, isActive, subscribed>>

\* Game.checkEnemyAttacks(), with any set of enemies in attack range of the player
DoCheckEnemyAttacks ==
    /\ \E inRange \in SUBSET DOMAIN enemies :
          LET r == CheckEnemyAttacks(W0, enemies, inRange, now)
          IN  /\ Commit(r.w, "checkEnemyAttacks", inRange, TRUE)
              /\ enemies' = r.enemies
    /\ UNCHANGED <<raycastEnemies, listeners, now, lastFireTime, enemyIdCounter, deadEnemies, spawnTimer,
                   playerPosition, subscribed>>

\* Mutant of Runs: only Game.update's own test is made
RunsWhilePaused(s) == s.isPlaying /\ ~s.shopOpen

\* Engine.loop: whether the frame updates the systems; Game.update tests isPlaying and
\* shopOpen once more
Runs(s) == (s.isPlaying /\ ~s.isPaused /\ ~s.shopOpen) /\ ~(~s.isPlaying \/ s.shopOpen)

\* Engine.loop(): one frame, with Game.update(deltaTime) as the system updated. The
\* player is at some position, the spawner ticks, the RaycastSystem is given the
\* spawner's array, and the entities in range (any of them) attack.
DoLoop ==
    /\ \/ /\ ~Runs(state)
          /\ call' = [op |-> "loop", arg |-> "none",
                      ret |-> [ran |-> FALSE, spawned |-> <<>>, updated |-> <<>>,
                               released |-> <<>>]]
          /\ events' = <<>>
          /\ UNCHANGED <<state, template, shared, isActive, enemies, deadEnemies,
                         spawnTimer, enemyIdCounter, playerPosition, raycastEnemies>>
       \/ /\ Runs(state)
          /\ \E dt \in FrameDeltas, position \in FramePositions :
                LET spawns == isActive /\ spawnTimer + dt >= SPAWN_INTERVAL
                IN  /\ spawns => enemyIdCounter < MaxEnemies
                    /\ \E o \in (IF spawns THEN FrameOffsets ELSE {NoOffset}) :
                          LET sp == Update(Sp0, isActive, dt,
                                           GetSpawnPosition(position, o), now)
                          IN  \E inRange \in SUBSET DOMAIN sp.enemies :
                                 LET r == CheckEnemyAttacks(W0, sp.enemies, inRange, now)
                                 IN  /\ Commit(r.w, "loop",
                                               [dt |-> dt, position |-> position,
                                                offset |-> o, inRange |-> inRange],
                                               [ran |-> TRUE, spawned |-> sp.spawned,
                                                updated |-> sp.updated,
                                                released |-> sp.released])
                                     /\ enemies' = r.enemies
                                     /\ deadEnemies' = sp.deadEnemies
                                     /\ spawnTimer' = sp.spawnTimer
                                     /\ enemyIdCounter' = sp.enemyIdCounter
                                     /\ playerPosition' = position
          /\ raycastEnemies' = [aliased |-> TRUE, enemies |-> <<>>]
    /\ UNCHANGED <<listeners, now, lastFireTime, subscribed>>

\* Game.startGame()
DoStartGame ==
    /\ Commit([Publish(SetState(Reset(W0), <<"isPlaying">>, TRUE), "GAME_STARTED", NoData)
                  EXCEPT !.active = TRUE],
              "startGame", "none", TRUE)
    /\ UNCHANGED <<raycastEnemies, listeners, now, lastFireTime, enemies, enemyIdCounter,
                   deadEnemies, spawnTimer, playerPosition, subscribed>>

\* Shop.toggle(): open() or close()
DoToggle ==
    /\ Commit(SetState(W0, <<"shopOpen">>, ~state.shopOpen), "toggle", "none", TRUE)
    /\ UNCHANGED <<raycastEnemies, listeners, now, lastFireTime, enemies, enemyIdCounter,
                   deadEnemies, spawnTimer, playerPosition, subscribed>>

\* Engine.pause() and Engine.resume()
DoPause ==
    /\ \E paused \in BOOLEAN :
          Commit(SetState(W0, <<"isPaused">>, paused),
                 IF paused THEN "pause" ELSE "resume", "none", TRUE)
    /\ UNCHANGED <<raycastEnemies, listeners, now, lastFireTime, enemies, enemyIdCounter,
                   deadEnemies, spawnTimer, playerPosition, subscribed>>

\* InputManager.onMouseDown with the pointer locked, then Game.shoot(): the current
\* weapon fires if it can, and the shot is resolved along any ray against
\* RaycastSystem.enemies
DoGameShoot ==
    /\ state.isPlaying /\ ~state.shopOpen
    /\ LET type == state.weapons.current
           fired == CanFire(state, type, lastFireTime[type], now)
           w == Fire(W0, type, lastFireTime[type], now)
       IN  /\ \E ray \in [through : LinesThrough(Targets), high : BOOLEAN] :
                 LET r == IF fired THEN Shoot(w, Targets, ray, WeaponDamage(type), now)
                          ELSE [enemies |-> Targets, w |-> w]
                 IN  /\ Commit(r.w, "gameShoot", ray, fired)
                     /\ IF raycastEnemies.aliased
                        THEN enemies' = r.enemies /\ UNCHANGED raycastEnemies
                        ELSE /\ raycastEnemies' = [raycastEnemies EXCEPT !.enemies = r.enemies]
                             /\ UNCHANGED enemies
           /\ lastFireTime' =
                 [lastFireTime EXCEPT ![type] = FireTime(state, type, @, now)]
    /\ UNCHANGED <<listeners, now, enemyIdCounter, deadEnemies, spawnTimer,
                   playerPosition, subscribed>>

\* The channel a call starts from: nothing delivered, logged or raised yet.
B0 == [listeners |-> listeners, trace |-> <<>>, logged |-> <<>>, log |-> <<>>,
       raised |-> FALSE]

\* The call's effect on the channel, and the record of the call.
CommitBus(b, op, arg) ==
    /\ listeners' = b.listeners
    /\ events' = b.log
    /\ call' = [op |-> op, arg |-> arg,
                ret |-> [trace |-> b.trace, logged |-> b.logged, threw |-> b.raised]]

\* What a call to the channel alone leaves as it is.
BusOnly ==
    UNCHANGED <<raycastEnemies, state, template, shared, now, lastFireTime, enemies, enemyIdCounter,
                deadEnemies, spawnTimer, playerPosition, isActive, subscribed>>

\* The subscriptions held, over all names
Held == Len(listeners["PLAYER_DIED"]) + Len(listeners["STATE_CHANGED"])

DoOn ==
    /\ Held < MaxListeners
    /\ \E name \in EventNames, id \in Callbacks :
          /\ Subscribable(name, id)
          /\ ~Has(listeners, name, id)
          /\ CommitBus([B0 EXCEPT !.listeners = On(@, name, id)], "on",
                       [name |-> name, id |-> id])
    /\ BusOnly

DoOnce ==
    /\ Held < MaxListeners
    /\ \E name \in EventNames, id \in Callbacks \ {"onPlayerDied", "republish"} :
          /\ ~Has(listeners, name, id)
          /\ CommitBus([B0 EXCEPT !.listeners = Once(@, name, id)], "once",
                       [name |-> name, id |-> id])
    /\ BusOnly

DoOff ==
    /\ \E name \in EventNames, id \in Callbacks :
          CommitBus([B0 EXCEPT !.listeners = Off(@, name, id)], "off",
                    [name |-> name, id |-> id])
    /\ BusOnly

DoClearListeners ==
    /\ \E name \in EventNames \cup {"all"} :
          CommitBus([B0 EXCEPT !.listeners = ClearListeners(@, name)], "clearListeners",
                    [name |-> name])
    /\ BusOnly

DoEmit ==
    /\ \E name \in EventNames, payload \in Payloads :
          CommitBus(Emit(B0, name, payload, 0), "emit",
                    [name |-> name, payload |-> payload])
    /\ BusOnly

\* CollisionSystem.raycastSphere on the arguments at hand
DoRaycastSphere ==
    /\ call.op = "arguments"
    /\ call' = [op |-> "raycastSphere", arg |-> call.arg,
                ret |-> RaycastSphere(call.arg.origin, call.arg.direction,
                                      call.arg.sphereCenter, call.arg.radius)]
    /\ events' = <<>>
    /\ UNCHANGED <<raycastEnemies, state, template, shared, now, lastFireTime, enemies, enemyIdCounter,
                   deadEnemies, spawnTimer, playerPosition, isActive, subscribed,
                   listeners>>

----------------------------------------------------------------------------
(* Specifications                                                          *)

Init ==
    /\ state = DeepClone(initialState).value
    /\ template = initialState
    /\ shared = DeepClone(initialState).shared
    /\ events = <<>>
    /\ call = [op |-> "init", arg |-> "none", ret |-> TRUE]
    /\ now = StartTime
    /\ lastFireTime = [t \in WeaponIds |-> 0]
    /\ enemies = <<>>
    /\ enemyIdCounter = 0
    /\ deadEnemies = <<>>
    /\ spawnTimer = 0
    /\ playerPosition = [x |-> 0, z |-> 0]
    /\ isActive = FALSE
    /\ subscribed = TRUE
    /\ listeners = [n \in EventNames |-> <<>>]
    /\ calls = 0
    /\ raycastEnemies = [aliased |-> FALSE, enemies |-> <<>>]

\* The player's side of the store: health, armor, coins, kills.
NextPlayer ==
    /\ \/ DoDamage \/ DoHeal \/ DoAddArmor \/ DoAddCoins \/ DoSpendCoins \/ DoAddKill
       \/ DoReset \/ DoPurchaseArmor
    /\ UNCHANGED calls

SpecPlayer == Init /\ [][NextPlayer]_vars

\* The weapons' side of the store.
NextArsenal ==
    /\ \/ DoSwitchWeapon \/ DoAddWeapon \/ DoUseAmmo \/ DoReloadWeapon \/ DoReset
       \/ DoAddCoins \/ DoPurchaseArsenal
    /\ UNCHANGED calls

SpecArsenal == Init /\ [][NextArsenal]_vars

\* Every structured mutation of the store, in runs of at most MaxCalls calls.
NextStore ==
    /\ calls < MaxCalls
    /\ calls' = calls + 1
    /\ \/ DoDamage \/ DoHeal \/ DoAddArmor \/ DoAddCoins \/ DoSpendCoins \/ DoAddKill
       \/ DoSwitchWeapon \/ DoAddWeapon \/ DoUseAmmo \/ DoReloadWeapon \/ DoReset
       \/ DoPurchase

SpecStore == Init /\ [][NextStore]_vars

\* The Weapon instances over the store, with the clock.
NextWeapon ==
    /\ \/ DoFire \/ Advance(WeaponSteps, MaxElapsed) \/ DoSwitchWeapon \/ DoAddWeapon
       \/ DoReloadWeapon
    /\ UNCHANGED calls

SpecWeapon == Init /\ [][NextWeapon]_vars

\* The hostile entities' life cycle, with the clock.
NextEnemy ==
    /\ \/ DoSpawnEnemy \/ DoTakeDamage \/ Advance(CombatSteps, CombatElapsed)
    /\ UNCHANGED calls

SpecEnemy == Init /\ [][NextEnemy]_vars

\* The hostile entities' attacks on the player, with the clock.
NextAttack ==
    /\ \/ DoSpawnEnemy \/ DoLethalShot \/ DoAttack \/ DoCheckEnemyAttacks
       \/ Advance(CombatSteps, CombatElapsed)
    /\ UNCHANGED calls

SpecAttack == Init /\ [][NextAttack]_vars

\* The Lifecycle Manager: spawning, ticks, removal, with shots and the clock.
NextSpawner ==
    /\ \/ DoStart \/ DoStop \/ DoUpdate \/ DoSpawnEnemy \/ DoRemoveEnemy
       \/ DoCleanupDeadEnemies \/ DoClear \/ DoLethalShot
       \/ Advance(SpawnSteps, SpawnElapsed)
    /\ UNCHANGED calls

SpecSpawner == Init /\ [][NextSpawner]_vars

\* Where the Lifecycle Manager places new entities, for any position of the player.
NextPosition ==
    /\ \/ DoSetPlayerPosition \/ DoSpawnEnemy \/ DoStart \/ DoUpdate
    /\ UNCHANGED calls

SpecPosition == Init /\ [][NextPosition]_vars

\* The Hit-Scan Resolver over the entities the Lifecycle Manager has spawned.
NextShoot ==
    /\ \/ DoSpawnEnemy \/ DoShoot
    /\ UNCHANGED calls

SpecShoot == Init /\ [][NextShoot]_vars

\* Rounds: spawning, stopping, clearing and restarting.
NextRound ==
    /\ \/ DoSpawnEnemy \/ DoUpdate \/ DoStart \/ DoStop \/ DoClear \/ DoRestartGame
    /\ UNCHANGED calls

SpecRound == Init /\ [][NextRound]_vars

\* A lethal shot fired while the clock can still pass the body's despawn time
DoShotInTime ==
    /\ \E dt \in SpawnSteps : now + BODY_DESPAWN_TIME + dt <= StartTime + DespawnElapsed
    /\ DoLethalShot

\* The active spawner holds a body that has lain longer than the despawn time
BodyDue == isActive /\ \E i \in DOMAIN enemies : ShouldRemove(enemies[i], now)

\* Bodies waited for: the spawner started and never stopped, a clock that keeps running
\* and frames (some as short as 0 ms) that keep coming. Of the frames, the fairness
\* asked is WF_vars(BodyDue /\ Tick(FrameDeltas)), written out: a frame of 0 ms is
\* enabled, and removes a body, exactly when BodyDue holds.
NextDespawn ==
    /\ \/ DoStart \/ Tick(FrameDeltas) \/ DoSpawnEnemy \/ DoShotInTime
       \/ Advance(SpawnSteps, DespawnElapsed)
    /\ UNCHANGED calls

SpecDespawn ==
    /\ Init /\ [][NextDespawn]_vars
    /\ \/ []<>~BodyDue
       \/ []<><<BodyDue /\ Tick(FrameDeltas) /\ UNCHANGED calls>>_vars
    /\ WF_vars(Advance(SpawnSteps, DespawnElapsed) /\ UNCHANGED calls)

\* Kills: entities spawned by the ticks, shot at with the shotgun and removed, over
\* rounds; the clock makes one step, long enough for the bodies there are to be due.
NextKills ==
    /\ \/ ShootWith({WeaponDamage("shotgun")}) \/ Tick(FrameDeltas) \/ DoRestartGame
       \/ Advance({SpawnElapsed}, SpawnElapsed)
    /\ UNCHANGED calls

SpecKills == Init /\ [][NextKills]_vars

\* The game loop with the attacks of the entities, until the player dies and after.
NextDeath ==
    /\ \/ DoStartGame \/ DoRestartGame \/ DoLoop
       \/ Advance({ATTACK_COOLDOWN}, DeathElapsed)
    /\ UNCHANGED calls

SpecDeath == Init /\ [][NextDeath]_vars

\* The game loop with the shop opened and closed and the game paused and resumed.
NextLoop ==
    /\ \/ DoRestartGame \/ DoLoop \/ DoToggle \/ DoPause
    /\ UNCHANGED calls

SpecLoop == Init /\ [][NextLoop]_vars

\* A round restarted while shots are fired and frames come.
NextRestart ==
    /\ \/ DoRestartGame \/ DoLoop \/ DoGameShoot
       \/ Advance(WeaponSteps, RestartElapsed)
    /\ UNCHANGED calls

SpecRestart == Init /\ [][NextRestart]_vars

\* The Event Channel: subscriptions and publications.
NextBus ==
    /\ \/ DoOn \/ DoOnce \/ DoOff \/ DoClearListeners \/ DoEmit
    /\ UNCHANGED calls

SpecBus == Init /\ [][NextBus]_vars

\* The collision queries, on any ray and sphere of the grid.
InitRaycast ==
    /\ \E in \in RaycastInputs : call = [op |-> "arguments", arg |-> in, ret |-> Null]
    /\ state = DeepClone(initialState).value
    /\ template = initialState
    /\ shared = DeepClone(initialState).shared
    /\ events = <<>>
    /\ now = StartTime
    /\ lastFireTime = [t \in WeaponIds |-> 0]
    /\ enemies = <<>>
    /\ enemyIdCounter = 0
    /\ deadEnemies = <<>>
    /\ spawnTimer = 0
    /\ playerPosition = [x |-> 0, z |-> 0]
    /\ isActive = FALSE
    /\ subscribed = TRUE
    /\ listeners = [n \in EventNames |-> <<>>]
    /\ calls = 0
    /\ raycastEnemies = [aliased |-> FALSE, enemies |-> <<>>]

NextRaycast ==
    /\ DoRaycastSphere
    /\ UNCHANGED calls

SpecRaycast == InitRaycast /\ [][NextRaycast]_vars

----------------------------------------------------------------------------
(* Properties                                                              *)
(* A property of one call is an action formula: the unprimed variables are *)
(* the state before the call, call' and events' describe the call made.    *)

Player == state.player
Weapons == state.weapons

\* C1: for every d with 0 <= d <= armor, damage(d) leaves player.health unchanged and
\* reduces player.armor by exactly d.
C1_ArmorAbsorbs ==
    [][ (call'.op = "damage" /\ 0 <= call'.arg /\ call'.arg <= state.player.armor)
           => /\ state'.player.health = state.player.health
              /\ state'.player.armor = state.player.armor - call'.arg ]_vars

\* damage(25) on armor 50, health 150: armor 25 is left and the health is whole.
C1_Witness ==
    /\ call.op = "damage" /\ call.arg = 25
    /\ Player.maxArmor = 50 /\ Player.armor = 25
    /\ Player.maxHealth = 150 /\ Player.health = 150
    /\ ~Published(events, "ARMOR_BROKEN")

\* C2 as stated: for every state, armor 0 included, and every d > armor, damage(d) sets
\* armor to 0, publishes ARMOR_BROKEN exactly once during the call and sets health to
\* max(0, health - (d - armor0)).
C2_Original ==
    [][ (call'.op = "damage" /\ call'.arg > state.player.armor)
           => /\ state'.player.armor = 0
              /\ Count(events', "ARMOR_BROKEN") = 1
              /\ state'.player.health =
                    Max(0, state.player.health - (call'.arg - state.player.armor)) ]_vars

\* C2 amended: for every d > armor, damage(d) sets armor to 0 and health to
\* max(0, health - (d - armor0)); ARMOR_BROKEN is published exactly once during the call
\* when armor0 > 0 and not at all when armor0 = 0.
C2_ArmorOverflow ==
    [][ (call'.op = "damage" /\ call'.arg > state.player.armor)
           => /\ state'.player.armor = 0
              /\ Count(events', "ARMOR_BROKEN") = (IF state.player.armor > 0 THEN 1 ELSE 0)
              /\ state'.player.health =
                    Max(0, state.player.health - (call'.arg - state.player.armor)) ]_vars

\* damage(50) on armor 25, health 125: the armor breaks once, 25 points reach the health.
C2_Witness ==
    /\ call.op = "damage" /\ call.arg = 50
    /\ Player.maxArmor = 25 /\ Player.armor = 0
    /\ Player.maxHealth = 125 /\ Player.health = 100
    /\ Count(events, "ARMOR_BROKEN") = 1

\* C3: PLAYER_DIED is published once per descent of player.health to 0: a call that damages
\* the player publishes it at most once, and not at all while the health is already 0.
C3_Original ==
    [][ call'.op \in {"damage", "checkEnemyAttacks"}
           => Count(events', "PLAYER_DIED") <= (IF state.player.health > 0 THEN 1 ELSE 0) ]_vars

\* C4: after any sequence of the store's structured mutations, 0 <= health <= maxHealth,
\* 0 <= armor <= maxArmor and 0 <= ammo[w] <= maxAmmo[w] for every weapon w.
C4_Ranges ==
    /\ 0 <= Player.health /\ Player.health <= Player.maxHealth
    /\ 0 <= Player.armor /\ Player.armor <= Player.maxArmor
    /\ \A t \in WeaponIds : 0 <= Weapons.ammo[t] /\ Weapons.ammo[t] <= Weapons.maxAmmo[t]

\* heal(25) at full health 150, after a vest whose armor a hit has used up: the health
\* stops at maxHealth.
C4_Witness ==
    /\ call.op = "heal" /\ call.arg = 25
    /\ Player.maxHealth = 150 /\ Player.health = 150
    /\ Player.maxArmor = 50 /\ Player.armor = 0

\* C5: spendCoins(n) returns false, changes nothing and publishes nothing when coins < n;
\* otherwise it returns true and coins decreases by exactly n; coins is never negative.
C5_SpendCoins ==
    [][ /\ call'.op = "spendCoins"
           => IF state.player.coins < call'.arg
              THEN ~call'.ret /\ state' = state /\ events' = <<>>
              ELSE call'.ret /\ state'.player.coins = state.player.coins - call'.arg
        /\ state'.player.coins >= 0 ]_vars

\* spendCoins(50) with 36 coins, left from 50 after a box of pistol ammo: refused.
C5_Witness ==
    /\ call.op = "spendCoins" /\ call.arg = 50 /\ ~call.ret
    /\ Player.coins = 36 /\ events = <<>>

\* C6: useAmmo() with current weapon ammo a > 0 returns true, sets that ammo to a - 1 and
\* publishes WEAPON_FIRED with ammoLeft = a - 1; with ammo 0 it returns false, publishes
\* WEAPON_EMPTY and leaves all ammo counts unchanged.
C6_UseAmmo ==
    [][ call'.op = "useAmmo"
           => LET weapon == state.weapons.current
                  a == state.weapons.ammo[weapon]
              IN  IF a > 0
                  THEN /\ call'.ret
                       /\ state'.weapons.ammo = [state.weapons.ammo EXCEPT ![weapon] = a - 1]
                       /\ \E i \in DOMAIN events' :
                             /\ events'[i].name = "WEAPON_FIRED"
                             /\ events'[i].data.weapon = weapon
                             /\ events'[i].data.ammoLeft = a - 1
                  ELSE /\ ~call'.ret
                       /\ Published(events', "WEAPON_EMPTY")
                       /\ state'.weapons.ammo = state.weapons.ammo ]_vars

\* useAmmo() with 12 rounds in the pistol: 11 are left and WEAPON_FIRED says 11.
C6_Witness ==
    /\ call.op = "useAmmo" /\ call.arg = "pistol" /\ call.ret
    /\ Weapons.ammo["pistol"] = 11
    /\ \E i \in DOMAIN events :
          events[i].name = "WEAPON_FIRED" /\ events[i].data.ammoLeft = 11

\* C7: switchWeapon(id) changes weapons.current and publishes WEAPON_SWITCHED only if id is
\* owned; for an unowned id it returns false, changes nothing and publishes nothing; hence
\* weapons.current is owned in every reachable state.
C7_SwitchWeapon ==
    [][ /\ call'.op = "switchWeapon"
           => IF Owns(state, call'.arg)
              THEN /\ call'.ret
                   /\ state'.weapons.current = call'.arg
                   /\ Count(events', "WEAPON_SWITCHED") = 1
              ELSE ~call'.ret /\ state' = state /\ events' = <<>>
        /\ Owns(state', state'.weapons.current) ]_vars

\* switchWeapon("shotgun") before the shotgun is owned, its ammo already loaded: refused.
C7_Witness ==
    /\ call.op = "switchWeapon" /\ call.arg = "shotgun" /\ ~call.ret
    /\ ~Owns(state, "shotgun") /\ Weapons.current = "pistol"
    /\ Weapons.ammo["shotgun"] = 6 /\ events = <<>>

\* C8: the Alive -> Dead transition fires at most once: the first takeDamage that brings
\* health <= 0 returns killed = true, sets isDead and records deathTime; every later
\* takeDamage returns false and changes neither health, isDead nor deathTime; no operation
\* returns the entity to Alive.
C8_DiesOnce ==
    [][ /\ \A i \in DOMAIN enemies :
              enemies[i].isDead
                 => /\ enemies'[i].isDead
                    /\ enemies'[i].health = enemies[i].health
                    /\ enemies'[i].deathTime = enemies[i].deathTime
        /\ call'.op = "takeDamage"
              => LET i == call'.arg[1]
                     amount == call'.arg[2]
                 IN  IF enemies[i].isDead THEN ~call'.ret
                     ELSE IF enemies[i].health - amount <= 0
                     THEN /\ call'.ret
                          /\ enemies'[i].isDead
                          /\ enemies'[i].deathTime = now
                          /\ enemies'[i].health = enemies[i].health - amount
                     ELSE /\ ~call'.ret
                          /\ ~enemies'[i].isDead
                          /\ enemies'[i].health = enemies[i].health - amount ]_vars

\* takeDamage on an entity killed earlier by overkill: refused, and the entity still holds
\* the health and the time of its death.
C8_Witness ==
    /\ call.op = "takeDamage" /\ ~call.ret
    /\ enemies[call.arg[1]].isDead
    /\ enemies[call.arg[1]].health = -50
    /\ enemies[call.arg[1]].deathTime = StartTime
    /\ now > StartTime

\* The entities whose cooldown timer a step has reset.
Attackers == {i \in DOMAIN enemies : enemies'[i].lastAttackTime # enemies[i].lastAttackTime}

\* C9: attack() returns ZOMBIE.DAMAGE and sets lastAttackTime to now when the entity is not
\* dead and now - lastAttackTime >= ATTACK_COOLDOWN, else it returns 0 and changes nothing;
\* two successful attacks of one entity are at least ATTACK_COOLDOWN apart, and a dead
\* entity never deals damage to the player.
C9_AttackCooldown ==
    [][ /\ call'.op = "attack"
           => LET e == enemies[call'.arg]
              IN  IF ~e.isDead /\ now - e.lastAttackTime >= ATTACK_COOLDOWN
                  THEN /\ call'.ret = ZOMBIE_DAMAGE
                       /\ enemies'[call'.arg].lastAttackTime = now
                  ELSE call'.ret = 0 /\ enemies' = enemies
        /\ \A i \in Attackers :
              /\ ~enemies[i].isDead
              /\ enemies'[i].lastAttackTime = now
              /\ now - enemies[i].lastAttackTime >= ATTACK_COOLDOWN
        /\ call'.op = "checkEnemyAttacks"
              => /\ Attackers \subseteq call'.arg
                 /\ state'.player.health =
                       Max(0, state.player.health - ZOMBIE_DAMAGE * Cardinality(Attackers))
        /\ call'.op # "checkEnemyAttacks" => state'.player = state.player ]_vars

\* The one entity has attacked at StartTime and again a cooldown later: 20 points dealt.
C9_Witness ==
    /\ call.op = "checkEnemyAttacks" /\ call.arg = {1}
    /\ Len(enemies) = 1
    /\ enemies[1].lastAttackTime = StartTime + ATTACK_COOLDOWN
    /\ now = StartTime + ATTACK_COOLDOWN
    /\ Player.health = 80

\* C10: Weapon.fire() succeeds iff that weapon's ammo > 0 and now - lastFireTime >= fireRate;
\* on success it records the fire timestamp, decreases the ammo of the weapon being fired by
\* exactly one, leaving every other weapon's ammo unchanged, publishes WEAPON_FIRED and
\* returns true.
C10_Original ==
    [][ call'.op = "fire"
           => LET type == call'.arg
                  a == state.weapons.ammo[type]
              IN  /\ call'.ret <=> (a > 0 /\ now - lastFireTime[type] >= FireRate(type))
                  /\ call'.ret
                        => /\ lastFireTime'[type] = now
                           /\ state'.weapons.ammo = [state.weapons.ammo EXCEPT ![type] = a - 1]
                           /\ Published(events', "WEAPON_FIRED") ]_vars

\* C11: a refused Weapon.fire() returns false and changes neither ammo nor lastFireTime;
\* refused only by the fire-rate cooldown (ammo > 0) it publishes no event, refused because
\* the ammo is 0 it publishes WEAPON_EMPTY.
C11_RefusedFire ==
    [][ call'.op = "fire"
           => LET type == call'.arg
                  a == state.weapons.ammo[type]
                  cooling == now - lastFireTime[type] < FireRate(type)
              IN  (a <= 0 \/ cooling)
                     => /\ ~call'.ret
                        /\ state'.weapons.ammo = state.weapons.ammo
                        /\ lastFireTime' = lastFireTime
                        /\ a > 0 => events' = <<>>
                        /\ a <= 0 => Published(events', "WEAPON_EMPTY") ]_vars

\* fire() on the pistol right after a successful discharge: refused by the cooldown alone,
\* 11 rounds still loaded, nothing published.
C11_Witness ==
    /\ call.op = "fire" /\ call.arg = "pistol" /\ ~call.ret
    /\ lastFireTime["pistol"] = now
    /\ Weapons.ammo["pistol"] = 11
    /\ events = <<>>

\* The ids of the entities in the active set, and how often an id occurs in a sequence.
Ids(es) == {es[i].id : i \in DOMAIN es}
Occurrences(seq, x) == Cardinality({k \in DOMAIN seq : seq[k] = x})

\* C12: while the Lifecycle Manager is inactive, an update tick spawns no new entity but
\* still advances every entity of the active set and still removes the expired dead ones.
C12_Original ==
    [][ (call'.op = "update" /\ ~isActive)
           => /\ Len(call'.ret.spawned) = 0
              /\ {call'.ret.updated[k] : k \in DOMAIN call'.ret.updated} = Ids(enemies)
              /\ \A i \in DOMAIN enemies :
                    ShouldRemove(enemies[i], now) => enemies[i].id \notin Ids(enemies') ]_vars

\* C13: on an active tick the elapsed time is added to the accumulator; exactly when it
\* reaches SPAWN_INTERVAL it is reset to 0 and exactly one entity is spawned; no tick spawns
\* more than one, and afterwards 0 <= spawnTimer < SPAWN_INTERVAL.
C13_SpawnTimer ==
    [][ (call'.op = "update" /\ isActive)
           => LET reached == spawnTimer + call'.arg.dt >= SPAWN_INTERVAL
              IN  /\ reached => /\ spawnTimer' = 0
                                /\ Len(call'.ret.spawned) = 1
                                /\ enemyIdCounter' = enemyIdCounter + 1
                  /\ ~reached => /\ spawnTimer' = spawnTimer + call'.arg.dt
                                 /\ Len(call'.ret.spawned) = 0
                                 /\ enemyIdCounter' = enemyIdCounter
                  /\ 0 <= spawnTimer' /\ spawnTimer' < SPAWN_INTERVAL ]_vars

\* A tick of 7 seconds, more than two intervals: one entity, the second of the run, is
\* spawned and the accumulator is back at 0.
C13_Witness ==
    /\ call.op = "update" /\ call.arg.dt = 7000 /\ isActive
    /\ Len(call.ret.spawned) = 1 /\ call.ret.spawned[1].id = 1
    /\ Len(enemies) = 2
    /\ spawnTimer = 0

\* C14 as stated: every dead entity is added to deadEnemies exactly once, at the tick in
\* which updateEnemies first observes its death.
C14_Original ==
    [][ (call'.op = "update" /\ isActive)
           => \A i \in DOMAIN enemies :
                 (enemies[i].isDead /\ IndexOf(deadEnemies, enemies[i].id) = 0)
                    => Occurrences(deadEnemies', enemies[i].id) = 1 ]_vars

\* C14 amended: a dead entity is added to deadEnemies at most once: at the tick in which
\* updateEnemies first observes its death when its body has not expired by then; when it has,
\* the entity is removed at that tick without ever being added. Nothing else is ever added.
C14_TrackedOnce ==
    [][ /\ (call'.op = "update" /\ isActive)
           => \A i \in DOMAIN enemies :
                 (enemies[i].isDead /\ IndexOf(deadEnemies, enemies[i].id) = 0)
                    => IF now - enemies[i].deathTime > BODY_DESPAWN_TIME
                       THEN /\ enemies[i].id \notin Ids(enemies')
                            /\ Occurrences(deadEnemies', enemies[i].id) = 0
                       ELSE Occurrences(deadEnemies', enemies[i].id) = 1
        /\ \A k \in DOMAIN deadEnemies' :
              /\ Occurrences(deadEnemies', deadEnemies'[k]) = 1
              /\ IndexOf(deadEnemies, deadEnemies'[k]) = 0
                    => /\ call'.op = "update" /\ isActive
                       /\ \E i \in DOMAIN enemies :
                             enemies[i].id = deadEnemies'[k] /\ enemies[i].isDead ]_vars

\* A tick sees again, 3 seconds after its death and after the tick that tracked it, the
\* one entity: it is still tracked once.
C14_Witness ==
    /\ call.op = "update" /\ isActive
    /\ Len(enemies) = 1 /\ enemies[1].isDead /\ enemies[1].deathTime = StartTime
    /\ now = StartTime + 3000
    /\ deadEnemies = <<enemies[1].id>>
    /\ call.ret.updated = <<enemies[1].id>>
    /\ spawnTimer = 2500

\* C15: after every operation deadEnemies is a subset of enemies and holds only Dead
\* entities; an entity that leaves the active set leaves deadEnemies in the same step, and
\* an active tick leaves no expired entity in either.
C15_DeadTracked ==
    [][ /\ \A k \in DOMAIN deadEnemies' :
              \E i \in DOMAIN enemies' :
                 enemies'[i].id = deadEnemies'[k] /\ enemies'[i].isDead
        /\ \A i \in DOMAIN enemies :
              enemies[i].id \notin Ids(enemies')
                 => Occurrences(deadEnemies', enemies[i].id) = 0
        /\ (call'.op = "update" /\ isActive)
              => \A i \in DOMAIN enemies' : ~ShouldRemove(enemies'[i], now) ]_vars

\* cleanupDeadEnemies() releases the one tracked body, expired since the tick that tracked
\* it, and leaves the living entity alone.
C15_Witness ==
    /\ call.op = "cleanupDeadEnemies"
    /\ Len(call.ret.released) = 1
    /\ deadEnemies = <<>>
    /\ Len(enemies) = 1 /\ ~enemies[1].isDead

\* C16: clear() leaves the active set and deadEnemies empty whatever the entities' life
\* states, and releases each entity of the active set exactly once.
C16_Clear ==
    [][ call'.op = "clear"
           => /\ enemies' = <<>>
              /\ deadEnemies' = <<>>
              /\ Len(call'.ret.released) = Len(enemies)
              /\ \A i \in DOMAIN enemies :
                    Occurrences(call'.ret.released, enemies[i].id) = 1 ]_vars

\* clear() of an active set of two: both entities are released, in the order of the set.
C16_Witness ==
    /\ call.op = "clear"
    /\ call.ret.released = <<0, 1>>
    /\ enemies = <<>> /\ deadEnemies = <<>>
    /\ enemyIdCounter = 2

\* The angle and distance drawn, as an offset, by the spawn a step has made.
SpawnOffset(c) == IF c.op = "update" THEN c.arg.offset ELSE c.arg
Square(v) == v * v
Distance2(p, q) == Square(p.x - q.x) + Square(p.z - q.z)

\* C17: every spawn position satisfies |x| <= MAP.BOUNDARY and |z| <= MAP.BOUNDARY, for
\* every player position, inside or outside the map, and every angle and distance.
C17_InsideMap ==
    [][ call'.op \in {"spawnEnemy", "update"}
           => \A k \in DOMAIN call'.ret.spawned :
                 LET p == call'.ret.spawned[k].position
                 IN  /\ -MAP_BOUNDARY <= p.x /\ p.x <= MAP_BOUNDARY
                     /\ -MAP_BOUNDARY <= p.z /\ p.z <= MAP_BOUNDARY ]_vars

\* A spawn with the player outside the map at (90, -150): the entity is placed in the
\* corner (95, -95).
C17_Witness ==
    /\ call.op = "spawnEnemy"
    /\ playerPosition = [x |-> 90, z |-> -150]
    /\ call.ret.spawned[1].position = [x |-> MAP_BOUNDARY, z |-> -MAP_BOUNDARY]

\* C18 as stated: every new hostile appears at a horizontal distance from the player between
\* SPAWN_DISTANCE_MIN and SPAWN_DISTANCE_MAX, for every player position.
C18_Original ==
    [][ call'.op \in {"spawnEnemy", "update"}
           => \A k \in DOMAIN call'.ret.spawned :
                 LET d2 == Distance2(call'.ret.spawned[k].position, playerPosition)
                 IN  Square(SPAWN_DISTANCE_MIN) <= d2 /\ d2 <= Square(SPAWN_DISTANCE_MAX) ]_vars

\* C18 amended: a new hostile appears at the point drawn in the spawn annulus around the
\* player, clamped to the map: when that point lies within the map boundary on both axes its
\* distance from the player is between SPAWN_DISTANCE_MIN and SPAWN_DISTANCE_MAX; when the
\* player is within the boundary the distance is at most SPAWN_DISTANCE_MAX.
C18_Annulus ==
    [][ call'.op \in {"spawnEnemy", "update"}
           => \A k \in DOMAIN call'.ret.spawned :
                 LET o == SpawnOffset(call')
                     x == playerPosition.x + o.x
                     z == playerPosition.z + o.z
                     d2 == Distance2(call'.ret.spawned[k].position, playerPosition)
                 IN  /\ ( /\ -MAP_BOUNDARY <= x /\ x <= MAP_BOUNDARY
                          /\ -MAP_BOUNDARY <= z /\ z <= MAP_BOUNDARY )
                           => /\ Square(SPAWN_DISTANCE_MIN) <= d2
                              /\ d2 <= Square(SPAWN_DISTANCE_MAX)
                     /\ ( /\ -MAP_BOUNDARY <= playerPosition.x
                          /\ playerPosition.x <= MAP_BOUNDARY
                          /\ -MAP_BOUNDARY <= playerPosition.z
                          /\ playerPosition.z <= MAP_BOUNDARY )
                           => d2 <= Square(SPAWN_DISTANCE_MAX) ]_vars

\* A spawn with the player at (15, 0), angle and distance giving the offset (48, 64): the
\* entity appears at (63, 64), 80 away.
C18_Witness ==
    /\ call.op = "spawnEnemy"
    /\ playerPosition = [x |-> 15, z |-> 0]
    /\ call.ret.spawned[1].position = [x |-> 63, z |-> 64]

\* The hits of a shot's ray on entities Alive before the shot, as positions in the ray,
\* and the nearest of them.
LiveHits(c) == {k \in DOMAIN c.arg.ray.through : ~enemies[c.arg.ray.through[k]].isDead}
Nearest(c) == c.arg.ray.through[CHOOSE k \in LiveHits(c) : \A j \in LiveHits(c) : k <= j]

\* C19: a shot damages at most one entity: only the entities Alive at the time of the shot
\* are candidates, the nearest one met receives takeDamage(damage) and every other entity
\* is unchanged; a shot that meets none changes no entity and no store state.
C19_OneTarget ==
    [][ call'.op = "shoot"
           => IF LiveHits(call') = {}
              THEN enemies' = enemies /\ state' = state /\ events' = <<>>
              ELSE LET i == Nearest(call')
                   IN  /\ Len(enemies') = Len(enemies)
                       /\ enemies'[i].health = enemies[i].health - call'.arg.damage
                       /\ enemies'[i].isDead <=> enemies'[i].health <= 0
                       /\ \A j \in DOMAIN enemies \ {i} : enemies'[j] = enemies[j] ]_vars

\* A pistol shot along a ray that meets the body of entity 1, then entity 2 behind it:
\* entity 2 takes the 50 points and nobody is killed by this shot.
C19_Witness ==
    /\ call.op = "shoot" /\ call.arg.damage = 50
    /\ call.arg.ray = [through |-> <<1, 2>>, high |-> FALSE]
    /\ enemies[1].isDead /\ enemies[1].health = 0
    /\ ~enemies[2].isDead /\ enemies[2].health = 50
    /\ events = <<>>

\* C20: a shot that kills an entity increases player.coins by exactly REWARDS.HEADSHOT when
\* the hit was a headshot and REWARDS.KILL otherwise, and player.kills by exactly 1; a hit
\* that does not kill changes neither.
C20_Reward ==
    [][ call'.op = "shoot"
           => IF /\ LiveHits(call') # {}
                 /\ enemies[Nearest(call')].health - call'.arg.damage <= 0
              THEN /\ state'.player.coins = state.player.coins +
                         (IF call'.arg.ray.high THEN REWARD_HEADSHOT ELSE REWARD_KILL)
                   /\ state'.player.kills = state.player.kills + 1
              ELSE /\ state'.player.coins = state.player.coins
                   /\ state'.player.kills = state.player.kills ]_vars

\* A shotgun shot to the head of the second entity, after a body kill of the first: 125
\* coins and 2 kills.
C20_Witness ==
    /\ call.op = "shoot" /\ call.arg.damage = 100
    /\ call.arg.ray = [through |-> <<2>>, high |-> TRUE]
    /\ enemies[2].isDead /\ ~enemies[2].head
    /\ Player.coins = REWARD_KILL + REWARD_HEADSHOT /\ Player.kills = 2
    /\ Published(events, "ENEMY_HEADSHOT")

----------------------------------------------------------------------------
\* C21: addArmor(points, healthBonus) overwrites: afterwards armor and maxArmor are
\* both points and health and maxHealth are both 100 + healthBonus, whatever they
\* were before the call.
C21_AddArmorOverwrites ==
    [][call'.op = "addArmor" =>
          /\ Player'.armor = call'.arg.armorPoints
          /\ Player'.maxArmor = call'.arg.armorPoints
          /\ Player'.health = BASE_HEALTH + call'.arg.healthBonus
          /\ Player'.maxHealth = BASE_HEALTH + call'.arg.healthBonus]_vars

\* A smaller vest has just been granted over a larger one that is still intact.
C21_Witness ==
    /\ call.op = "addArmor"
    /\ call.arg.armorPoints = 25
    /\ \E i \in DOMAIN events :
          /\ events[i].name = "STATE_CHANGED"
          /\ events[i].data.path = <<"player", "maxArmor">>
          /\ events[i].data.oldValue = 50
    /\ \E i \in DOMAIN events :
          /\ events[i].name = "STATE_CHANGED"
          /\ events[i].data.path = <<"player", "armor">>
          /\ events[i].data.oldValue = 50

----------------------------------------------------------------------------
\* C22: reset() after any sequence of mutations, addWeapon's push in place included,
\* leaves a state equal to the initial one (health 100, armor 0, coins 0, kills 0,
\* current weapon pistol, owned <<pistol>>, ammo pistol 12 and shotgun 0), and no
\* operation ever modifies the template initialState.
C22_Reset ==
    [][/\ call'.op = "reset" =>
             /\ state' = initialState
             /\ Player'.health = 100 /\ Player'.armor = 0
             /\ Player'.coins = 0 /\ Player'.kills = 0
             /\ Weapons'.current = "pistol" /\ Weapons'.owned = <<"pistol">>
             /\ Weapons'.ammo = [pistol |-> 12, shotgun |-> 0]
       /\ template' = template]_vars

\* reset() has just been called with the shotgun pushed onto the owned weapons.
C22_Witness ==
    /\ call.op = "reset"
    /\ call.arg = <<"pistol", "shotgun">>
    /\ Weapons.owned = <<"pistol">>
    /\ template = initialState

----------------------------------------------------------------------------
\* The fields the structured operations write, as setState paths
FieldPaths ==
    {<<"isPlaying">>, <<"weapons", "current">>, <<"weapons", "owned">>}
        \cup {<<"player", f>> : f \in DOMAIN initialState.player}
        \cup {<<"weapons", "ammo", id>> : id \in WeaponIds}

\* The operations of the store
StoreOps ==
    {"damage", "heal", "addArmor", "addCoins", "spendCoins", "addKill", "switchWeapon",
     "addWeapon", "useAmmo", "reloadWeapon", "reset"}

\* A STATE_CHANGED for the path was published with these old and new values.
Reported(log, path, old, new) ==
    \E i \in DOMAIN log :
        /\ log[i].name = "STATE_CHANGED"
        /\ log[i].data.path = path
        /\ {"oldValue", "newValue"} \subseteq DOMAIN log[i].data
        /\ log[i].data.oldValue = old
        /\ log[i].data.newValue = new

\* C23: every mutation made by a structured operation of the store, addWeapon and reset
\* included, publishes a STATE_CHANGED whose path names the changed field, whose
\* oldValue is the value before the write and whose newValue is the value after it.
C23_Original ==
    [][call'.op \in StoreOps =>
          \A path \in FieldPaths :
              Get(state', path) # Get(state, path) =>
                  Reported(events', path, Get(state, path), Get(state', path))]_vars

----------------------------------------------------------------------------
\* The catalogue item of a purchase, found by its id
ItemOf(id) == CHOOSE i \in ShopItems : i.id = id

\* C24 as stated: a purchase with insufficient coins returns false, publishes
\* PURCHASE_FAILED and no ITEM_PURCHASED, and leaves coins, owned weapons, ammo, armor
\* and health unchanged.
C24_Original ==
    [][(call'.op = "purchaseItem" /\ Player.coins < ItemOf(call'.arg).price) =>
          /\ call'.ret = Boolean(FALSE)
          /\ Published(events', "PURCHASE_FAILED")
          /\ ~Published(events', "ITEM_PURCHASED")
          /\ Player'.coins = Player.coins
          /\ Weapons'.owned = Weapons.owned /\ Weapons'.ammo = Weapons.ammo
          /\ Player'.armor = Player.armor /\ Player'.health = Player.health]_vars

\* C24, amended: a purchase with insufficient coins returns nothing (undefined, as a
\* successful one does), publishes PURCHASE_FAILED and no ITEM_PURCHASED, and leaves
\* coins, owned weapons, ammo, armor and health unchanged.
C24_RefusedPurchase ==
    [][(call'.op = "purchaseItem" /\ Player.coins < ItemOf(call'.arg).price) =>
          /\ call'.ret = Undefined
          /\ Published(events', "PURCHASE_FAILED")
          /\ ~Published(events', "ITEM_PURCHASED")
          /\ Player'.coins = Player.coins
          /\ Weapons'.owned = Weapons.owned /\ Weapons'.ammo = Weapons.ammo
          /\ Player'.armor = Player.armor /\ Player'.health = Player.health]_vars

\* The second vest (100 coins) has just been refused to a player holding 50 coins.
C24_Witness ==
    /\ call.op = "purchaseItem" /\ call.arg = "armor2"
    /\ Player.coins = 50
    /\ Published(events, "PURCHASE_FAILED")

----------------------------------------------------------------------------
\* C25: reloadWeapon(id) is idempotent-to-max: whatever the ammo was, the ammo of
\* weapon id afterwards equals maxAmmo[id], a second reloadWeapon(id) leaves the state
\* the first one produced, and no other weapon's ammo changes.
C25_ReloadToMax ==
    [][call'.op = "reloadWeapon" =>
          LET id == call'.arg
              once == ReloadWeapon(W0, id)
              twice == ReloadWeapon(once, id)
          IN  /\ Weapons'.ammo[id] = Weapons.maxAmmo[id]
              /\ \A other \in WeaponIds \ {id} : Weapons'.ammo[other] = Weapons.ammo[other]
              /\ state' = once.state
              /\ twice.state = once.state]_vars

\* The pistol has just been reloaded from 5 rounds while the shotgun is full.
C25_Witness ==
    /\ call.op = "reloadWeapon" /\ call.arg = "pistol"
    /\ \E i \in DOMAIN events :
          /\ events[i].name = "STATE_CHANGED"
          /\ events[i].data.path = <<"weapons", "ammo", "pistol">>
          /\ events[i].data.oldValue = 5
    /\ Weapons.ammo.pistol = 12
    /\ Weapons.ammo.shotgun = 6

----------------------------------------------------------------------------
\* The invocations a publish made itself, in order: the callbacks entered at depth 0
Invoked(trace) == SelectSeq(trace, LAMBDA e : e.depth = 0 /\ e.phase = "enter")

\* C26: publish(name, payload) invokes every handler registered for name at that time,
\* once each, in registration order, before it returns, each with the payload it was
\* given; a handler is never invoked for a name it is not registered for.
C26_Publish ==
    [][call'.op = "emit" =>
          LET name == call'.arg.name
              mine == Invoked(call'.ret.trace)
          IN  /\ Len(mine) = Len(listeners[name])
              /\ \A k \in DOMAIN mine :
                    /\ mine[k].id = listeners[name][k].id
                    /\ mine[k].name = name
                    /\ mine[k].payload = call'.arg.payload
              /\ \A k \in DOMAIN call'.ret.trace :
                    Has(listeners, call'.ret.trace[k].name, call'.ret.trace[k].id)]_vars

\* PLAYER_DIED has just been published to two handlers, in the order they subscribed,
\* while a third handler, subscribed to STATE_CHANGED, was left alone.
C26_Witness ==
    /\ call.op = "emit" /\ call.arg.name = "PLAYER_DIED"
    /\ Len(listeners["PLAYER_DIED"]) = 2
    /\ listeners["STATE_CHANGED"] = <<Subscription("showGameOver", FALSE)>>
    /\ Len(call.ret.trace) = 4
    /\ call.ret.trace[1].id = listeners["PLAYER_DIED"][1].id
    /\ call.ret.trace[3].id = listeners["PLAYER_DIED"][2].id
    /\ \A k \in 1..4 : call.ret.trace[k].name = "PLAYER_DIED"

----------------------------------------------------------------------------
\* The subscription was still held when the trace reached position k: it is not a
\* once() subscription invoked before.
HeldAt(trace, k, name, s) ==
    s.once => ~\E m \in 1..(k - 1) :
                  trace[m].phase = "enter" /\ trace[m].name = name /\ trace[m].id = s.id

\* The positions in a trace at which a callback raised an error
Raises(trace) == {k \in DOMAIN trace : trace[k].phase = "raise"}

\* C27: a handler that raises an error during publish is isolated: the error is
\* caught and logged, every handler registered after it for the same event (and still
\* registered then) is invoked after it, and the error does not reach the publisher.
C27_Isolation ==
    [][call'.op = "emit" =>
          LET trace == call'.ret.trace
          IN  /\ ~call'.ret.threw
              /\ Len(call'.ret.logged) = Cardinality(Raises(trace))
              /\ \A k \in Raises(trace) :
                    /\ trace[k].id = "errorCallback"
                    /\ \E n \in DOMAIN call'.ret.logged : call'.ret.logged[n] = trace[k].id
                    /\ \A i, j \in DOMAIN listeners[trace[k].name] :
                          (/\ listeners[trace[k].name][i].id = trace[k].id
                           /\ i < j
                           /\ HeldAt(trace, k, trace[k].name,
                                     listeners[trace[k].name][j])) =>
                              \E m \in DOMAIN trace :
                                  /\ m > k
                                  /\ trace[m].phase = "enter"
                                  /\ trace[m].depth = trace[k].depth
                                  /\ trace[m].name = trace[k].name
                                  /\ trace[m].id = listeners[trace[k].name][j].id]_vars

\* The first of three PLAYER_DIED handlers has just raised an error: it was logged and
\* the two after it were invoked.
C27_Witness ==
    /\ call.op = "emit" /\ call.arg.name = "PLAYER_DIED"
    /\ Len(listeners["PLAYER_DIED"]) = 3
    /\ listeners["PLAYER_DIED"][1].id = "errorCallback"
    /\ call.ret.logged = <<"errorCallback">>
    /\ call.ret.trace[2].phase = "raise"
    /\ call.ret.trace[3].phase = "enter" /\ call.ret.trace[3].depth = 0
    /\ \E m \in DOMAIN call.ret.trace :
          /\ call.ret.trace[m].phase = "enter" /\ call.ret.trace[m].depth = 0
          /\ call.ret.trace[m].id = listeners["PLAYER_DIED"][3].id

----------------------------------------------------------------------------
\* How often the callback was invoked for the name in a trace
Invocations(trace, name, id) ==
    Cardinality({k \in DOMAIN trace :
                    trace[k].phase = "enter" /\ trace[k].name = name /\ trace[k].id = id})

\* No handler registered before position i for the name publishes that name again.
RepublishedLaterOnly(ls, name, i) == \A j \in 1..(i - 1) : ls[name][j].id # "republish"

----------------------------------------------------------------------------
\* The callback entered at position i of the trace leaves at position j, and all that
\* happens in between happens inside it, at a greater depth.
Encloses(trace, i, j) ==
    /\ j > i
    /\ trace[j].phase # "enter"
    /\ trace[j].id = trace[i].id /\ trace[j].name = trace[i].name
    /\ trace[j].depth = trace[i].depth
    /\ \A k \in (i + 1)..(j - 1) : trace[k].depth > trace[i].depth

\* C29: publication is reentrant and depth-first: what a handler publishes during a
\* delivery is delivered inside that handler's invocation. Every STATE_CHANGED handler
\* runs to completion while Game.onPlayerDied, which calls setState, is still running:
\* before the remaining PLAYER_DIED handlers and before publish returns.
C29_DepthFirst ==
    [][call'.op = "emit" =>
          LET trace == call'.ret.trace
          IN  \A i \in DOMAIN trace :
                  trace[i].phase = "enter" =>
                      \E j \in DOMAIN trace :
                          /\ Encloses(trace, i, j)
                          /\ trace[i].id = "onPlayerDied" =>
                                \A n \in DOMAIN listeners["STATE_CHANGED"] :
                                    HeldAt(trace, i, "STATE_CHANGED",
                                           listeners["STATE_CHANGED"][n]) =>
                                        \E k, m \in (i + 1)..(j - 1) :
                                            /\ trace[k] =
                                                  Entry(listeners["STATE_CHANGED"][n].id,
                                                        "STATE_CHANGED", "isPlaying",
                                                        trace[i].depth + 1, "enter")
                                            /\ Encloses(trace, k, m)]_vars

\* PLAYER_DIED has just been published to Game.onPlayerDied and then showGameOver: the
\* STATE_CHANGED handler ran inside onPlayerDied, before showGameOver was invoked for
\* PLAYER_DIED.
C29_Witness ==
    /\ call.op = "emit" /\ call.arg.name = "PLAYER_DIED"
    /\ Len(call.ret.trace) = 6
    /\ call.ret.trace[1] =
          Entry("onPlayerDied", "PLAYER_DIED", call.arg.payload, 0, "enter")
    /\ call.ret.trace[2] = Entry("showGameOver", "STATE_CHANGED", "isPlaying", 1, "enter")
    /\ call.ret.trace[3] = Entry("showGameOver", "STATE_CHANGED", "isPlaying", 1, "return")
    /\ call.ret.trace[4] =
          Entry("onPlayerDied", "PLAYER_DIED", call.arg.payload, 0, "return")
    /\ call.ret.trace[5] =
          Entry("showGameOver", "PLAYER_DIED", call.arg.payload, 0, "enter")
    /\ events = <<Ev("PLAYER_DIED", call.arg.payload), Ev("STATE_CHANGED", "isPlaying")>>

----------------------------------------------------------------------------
\* C30: the identity counter only grows and is never reset, not by clear(), stop() or a
\* round restart, and every spawned entity receives an identity that no entity spawned
\* before it has: the identities given out so far all lie below the counter, and a new
\* one is taken at or above it.
C30_FreshIdentity ==
    [][/\ enemyIdCounter' >= enemyIdCounter
       /\ \A i \in DOMAIN enemies' : enemies'[i].id < enemyIdCounter'
       /\ \A i, j \in DOMAIN enemies' : i # j => enemies'[i].id # enemies'[j].id
       /\ call'.op \in {"spawnEnemy", "update"} =>
             /\ enemyIdCounter' = enemyIdCounter + Len(call'.ret.spawned)
             /\ \A k \in DOMAIN call'.ret.spawned :
                   /\ call'.ret.spawned[k].id >= enemyIdCounter
                   /\ call'.ret.spawned[k].id < enemyIdCounter'
       /\ call'.op \in {"clear", "stop", "restartGame"} =>
             enemyIdCounter' = enemyIdCounter]_vars

\* An entity has just been spawned in a restarted round, after the one entity of the
\* round before was cleared away: it is the second identity, not the first again.
C30_Witness ==
    /\ call.op = "spawnEnemy"
    /\ state.isPlaying
    /\ Len(enemies) = 1 /\ enemies[1].id = 1
    /\ enemyIdCounter = 2

----------------------------------------------------------------------------
\* C31: raycastSphere returns null whenever the sphere's center projects behind the
\* ray's origin along its direction, (C - O) . D < 0, the origin lying inside the
\* sphere or not; and it never returns a negative distance.
C31_BehindIsNull ==
    [][call'.op = "raycastSphere" =>
          LET in == call'.arg
          IN  /\ Dot(SubVectors(in.sphereCenter, in.origin), in.direction) < 0 =>
                    call'.ret = Null
              /\ call'.ret.type = "hit" => call'.ret.distance >= 0]_vars

\* A ray has just been cast from inside a sphere whose center lies behind the origin:
\* the line meets the sphere, on both sides of the origin, and null was returned.
C31_Witness ==
    /\ call.op = "raycastSphere"
    /\ call.arg.origin = Vec(0, 0, 1) /\ call.arg.direction = Vec(0, 0, 1)
    /\ call.arg.sphereCenter = Vec(0, 0, 0) /\ call.arg.radius = 2
    /\ call.ret = Null

----------------------------------------------------------------------------
\* The positions in a log at which a name was published
Positions(log, name) == {i \in DOMAIN log : log[i].name = name}

\* C32: within one damage call ARMOR_BROKEN (published if the armor was depleted) comes
\* before PLAYER_DIED (published if the health reached 0), which comes before
\* PLAYER_DAMAGED; PLAYER_DAMAGED is published exactly once, last, and carries the
\* resulting health, also when the PLAYER_DIED handler has run before it.
C32_DamageOrder ==
    [][call'.op = "damage" =>
          LET broken == Positions(events', "ARMOR_BROKEN")
              died == Positions(events', "PLAYER_DIED")
              damaged == Positions(events', "PLAYER_DAMAGED")
          IN  /\ damaged = {Len(events')}
              /\ events'[Len(events')].data =
                    [amount |-> call'.arg, remaining |-> Player'.health]
              /\ Cardinality(broken) <= 1 /\ Cardinality(died) <= 1
              /\ \A i \in broken : \A j \in died : i < j
              /\ broken # {} <=> (Player.armor > 0 /\ Player'.armor = 0)
              /\ died # {} => Player'.health = 0
              /\ (Player.health > 0 /\ Player'.health = 0) => died # {}]_vars

\* One damage call has just broken the armor and killed the player: ARMOR_BROKEN,
\* PLAYER_DIED, the handler's STATE_CHANGED and PLAYER_DAMAGED were all published.
C32_Witness ==
    /\ call.op = "damage"
    /\ Published(events, "ARMOR_BROKEN")
    /\ Published(events, "PLAYER_DIED")
    /\ \E i \in DOMAIN events :
          /\ events[i].name = "STATE_CHANGED"
          /\ events[i].data.path = <<"isPlaying">>
          /\ \E j \in Positions(events, "PLAYER_DIED") : j < i
    /\ events[Len(events)] =
          Ev("PLAYER_DAMAGED", [amount |-> call.arg, remaining |-> 0])

----------------------------------------------------------------------------
\* C33: in one updateEnemies pass every entity in the active set when the pass starts
\* (those of the tick before and the one the tick has just spawned) has update called
\* on it exactly once, and nothing else has, also when entities are removed from the
\* set during the pass.
C33_EachOnce ==
    [][(call'.op = "update" /\ isActive) =>
          LET atStart == Ids(enemies) \cup {call'.ret.spawned[k].id :
                                              k \in DOMAIN call'.ret.spawned}
          IN  /\ \A id \in atStart : Occurrences(call'.ret.updated, id) = 1
              /\ Len(call'.ret.updated) = Cardinality(atStart)]_vars

\* A pass has just removed the first entity it visited and gone on to update the
\* other one, which stays in the active set.
C33_Witness ==
    /\ call.op = "update"
    /\ Len(call.ret.updated) = 2
    /\ call.ret.released = <<call.ret.updated[1]>>
    /\ Len(enemies) = 1 /\ enemies[1].id = call.ret.updated[2]

----------------------------------------------------------------------------
\* C34: a tick never removes an Alive entity from the active set, nor a Dead one while
\* now - deathTime <= BODY_DESPAWN_TIME; the first tick of the active spawner at which
\* now - deathTime > BODY_DESPAWN_TIME removes it. With frames that keep coming, the
\* clock running and the spawner active, every entity that dies is eventually removed.
C34_Despawn ==
    /\ [][call'.op = "update" =>
             \A i \in DOMAIN enemies :
                LET e == enemies[i]
                IN  /\ ~e.isDead => e.id \in Ids(enemies')
                    /\ (e.isDead /\ now - e.deathTime <= BODY_DESPAWN_TIME)
                          => e.id \in Ids(enemies')
                    /\ (e.isDead /\ now - e.deathTime > BODY_DESPAWN_TIME /\ isActive)
                          => e.id \notin Ids(enemies')]_vars
    /\ \A id \in 0..MaxEnemies :
          (isActive /\ \E i \in DOMAIN enemies : enemies[i].id = id /\ enemies[i].isDead)
             ~> (id \notin Ids(enemies))

\* A body that lay through a tick at exactly BODY_DESPAWN_TIME has been removed by the
\* first tick after it, which left the Alive entity in the active set.
C34_Witness ==
    /\ call.op = "update" /\ isActive
    /\ Len(call.ret.released) = 1
    /\ Len(enemies) = 1 /\ ~enemies[1].isDead
    /\ now = StartTime + BODY_DESPAWN_TIME + 2500

----------------------------------------------------------------------------
\* C35: a shot fired after SpawnerSystem.clear() and before the next frame hits no
\* entity that was active before the clear: none of them takes damage, and the shot
\* yields no coins and no kill.
C35_Original ==
    [][(call'.op = "gameShoot" /\ ~raycastEnemies.aliased) =>
          /\ raycastEnemies'.enemies = raycastEnemies.enemies
          /\ Player'.coins = Player.coins
          /\ Player'.kills = Player.kills]_vars

----------------------------------------------------------------------------
\* C36: a shot publishes the kill notification (ENEMY_HEADSHOT for a headshot kill,
\* ENEMY_KILLED otherwise) exactly once for each kill it makes, so that its subscribers
\* are invoked once, and every kill notification published carries a payload with the
\* reward.
C36_Original ==
    [][call'.op = "shoot" =>
          LET notified == {k \in DOMAIN events' :
                              events'[k].name \in {"ENEMY_KILLED", "ENEMY_HEADSHOT"}}
          IN  /\ Cardinality(notified) = Player'.kills - Player.kills
              /\ \A k \in notified : "reward" \in DOMAIN events'[k].data]_vars

----------------------------------------------------------------------------
\* The Enemy objects there are, in the spawner's array or in the RaycastSystem's.
Entities == {enemies[i] : i \in DOMAIN enemies}
               \cup {raycastEnemies.enemies[i] : i \in DOMAIN raycastEnemies.enemies}

\* The entities that a step turns from Alive to Dead.
BecameDead == {e \in Entities : ~e.isDead /\ \E d \in Entities' : d.id = e.id /\ d.isDead}

\* C37: each hostile entity yields at most one kill and one reward. Whatever the step,
\* player.kills grows by no more than the number of entities the step turns from Alive
\* to Dead, and player.coins by no more than one reward for each of them; a Dead entity
\* never becomes Alive again; and every entity there is was spawned, under an id below
\* the number of entities spawned. Since a reset puts kills at 0, kills never exceeds
\* the number of entities that became Dead since the reset, nor the number spawned.
C37_OneKillEach ==
    [][/\ Player'.kills > Player.kills =>
             Player'.kills - Player.kills <= Cardinality(BecameDead)
       /\ Player'.coins > Player.coins =>
             Player'.coins - Player.coins <= REWARD_HEADSHOT * Cardinality(BecameDead)
       /\ \A e \in Entities, d \in Entities' : (e.isDead /\ d.id = e.id) => d.isDead
       /\ \A d \in Entities' : d.id < enemyIdCounter'
       /\ Cardinality(Entities') = Cardinality({d.id : d \in Entities'})]_vars

\* A second kill has been paid after the body of the first was removed by a tick.
C37_Witness ==
    /\ call.op = "shoot"
    /\ Player.kills = 2
    /\ Cardinality({e \in Entities : e.isDead}) = 1

----------------------------------------------------------------------------
\* The store as the subscribers of the k-th publication of a call read it: the store
\* before the call with the writes published so far.
RECURSIVE StoreAt(_)
StoreAt(k) ==
    IF k = 0 THEN state
    ELSE LET e == events'[k]
         IN  IF e.name # "STATE_CHANGED" THEN StoreAt(k - 1)
             ELSE IF "newValue" \in DOMAIN e.data
                  THEN Put(StoreAt(k - 1), e.data.path, e.data.newValue)
                  ELSE DeepClone(template).value

\* C38: whenever a STATE_CHANGED handler runs, the store it reads has
\* health <= maxHealth and armor <= maxArmor.
C38_Original ==
    [][\A k \in DOMAIN events' :
          events'[k].name = "STATE_CHANGED" =>
             /\ StoreAt(k).player.health <= StoreAt(k).player.maxHealth
             /\ StoreAt(k).player.armor <= StoreAt(k).player.maxArmor]_vars

----------------------------------------------------------------------------
\* C39: a frame in which damage takes the player's health to 0 ends with isPlaying
\* false and the spawner inactive; from then on, until startGame or restartGame is
\* invoked, isPlaying stays false, and a frame spawns, moves and removes no entity and
\* does the player no damage; and between the calls isPlaying implies health > 0.
C39_DeathStopsTicks ==
    /\ [](state.isPlaying => Player.health > 0)
    /\ [][/\ (call'.op = "loop" /\ Player.health > 0 /\ Player'.health = 0)
                => (~state'.isPlaying /\ ~isActive')
          /\ (~state.isPlaying /\ state'.isPlaying)
                => call'.op \in {"startGame", "restartGame"}
          /\ (call'.op = "loop" /\ ~state.isPlaying)
                => /\ call'.ret.spawned = <<>> /\ call'.ret.updated = <<>>
                   /\ call'.ret.released = <<>>
                   /\ enemies' = enemies /\ deadEnemies' = deadEnemies
                   /\ Player' = Player
                   /\ ~Published(events', "PLAYER_DAMAGED")]_vars

\* The player has died in a frame, and a later frame has come and gone.
C39_Witness ==
    /\ call.op = "loop" /\ ~call.ret.ran
    /\ Player.health = 0 /\ ~state.isPlaying /\ ~isActive
    /\ Len(enemies) > 0

\* C40: while shopOpen is true, isPaused is true or isPlaying is false, a frame of the
\* game loop changes no simulation state: the spawn accumulator, the active and the
\* dead-tracking sets with every entity's health and life state, and the player's
\* health and armor are as before, and update is called on no entity.
C40_FrameHeld ==
    [][(call'.op = "loop" /\ (state.shopOpen \/ state.isPaused \/ ~state.isPlaying)) =>
          /\ spawnTimer' = spawnTimer
          /\ enemies' = enemies
          /\ deadEnemies' = deadEnemies
          /\ call'.ret.updated = <<>>
          /\ Player'.health = Player.health
          /\ Player'.armor = Player.armor]_vars

\* A frame has come while the game was being played and paused, with the shop closed
\* and an entity in the active set.
C40_Witness ==
    /\ call.op = "loop" /\ ~call.ret.ran
    /\ state.isPlaying /\ state.isPaused /\ ~state.shopOpen
    /\ Len(enemies) > 0

====
